---- MODULE Spec2Model ----
(***************************************************************************)
(* Model of the recipe rescan pipeline of src/recettes_rescan.py:          *)
(* split_sections, parse_ingredients_lines, lines_to_list,                 *)
(* compute_nutrition and the per-document loop of main().                  *)
(*                                                                         *)
(* Text representation.  A line is a sequence of tokens.  A token stands   *)
(* for one character (" ", ".", ")", "-", a digit) or for one whole word   *)
(* of letters ("ingredients", "poulet", ...); a word token is a run of     *)
(* word characters, so the regular expressions' \b, \d, \s and keyword     *)
(* tests are decided token by token.  A text is the sequence of its lines  *)
(* as str.splitlines() returns them: the empty text is << >>.  A block     *)
(* (the result of "\n".join(...).strip()) is the sequence of its lines;    *)
(* the empty string is << >>.  Indexes are 1-based (Python's i is i+1).    *)
(***************************************************************************)
EXTENDS Integers, Sequences, FiniteSets, TLC

VARIABLES
    text,            \* split_sections: its argument
    sections,        \* split_sections: its result
    files,           \* main: the documents list_tree returned
    k,               \* main: how many of them the loop has been through
    index,           \* main: the recipe records so far
    nutrition_rows,  \* main: the rows of the nutrition summary so far
    out_json,        \* recettes_index.json
    out_csv,         \* recipes_list.csv
    out_nutr,        \* recipes_nutrition.csv
    args,            \* a function applied on its own: its arguments
    ret,             \* a function applied on its own: what it returned
    pc               \* where the run is

vars == <<text, sections, files, k, index, nutrition_rows, out_json, out_csv, out_nutr, args, ret, pc>>

-----------------------------------------------------------------------------
(* Bounds of the model *)

\* longest text given to split_sections, in lines
MaxLines == 5

\* longest text of a document of a one-document run, in lines
MaxDocLines == 4

\* most documents in a run of several documents
MaxDocs == 3

\* longest block given to parse_ingredients_lines, in lines
MaxBlockLines == 3

-----------------------------------------------------------------------------
(* Characters and words *)

Digits == {"0", "1", "2", "5"}

IsDigit(c) == c \in Digits

IsSpace(c) == c = " "

\* punctuation tokens of the alphabet: everything else is a word of letters.
\* "~" stands for a character that is neither an ASCII letter nor a digit nor
\* one of the others (the stored names of two built-in foods hold such
\* characters where the a of pates and the apostrophe of d'olive would be)
Punct == {" ", ".", ")", "(", "-", ":", "'", "/", "~"}

\* \w : digits and letters
IsWordChar(c) == c \notin Punct

\* the value of an absent index (Python's None for Optional[int])
NoIndex == 0

SetMin(S) == CHOOSE x \in S : \A y \in S : x <= y

SetMax(S) == CHOOSE x \in S : \A y \in S : x >= y

\* str.strip() of one line
Strip(l) ==
    LET keep == {i \in 1..Len(l) : ~IsSpace(l[i])}
    IN  IF keep = {} THEN << >> ELSE SubSeq(l, SetMin(keep), SetMax(keep))

\* "\n".join(ls).strip() for stripped lines ls: the blank lines at both ends go
JoinStrip(ls) ==
    LET keep == {i \in 1..Len(ls) : ls[i] # << >>}
    IN  IF keep = {} THEN << >> ELSE SubSeq(ls, SetMin(keep), SetMax(keep))

\* \b at the position before token p (1..Len(l)+1)
WordBoundary(l, p) ==
    LET before == p > 1 /\ p - 1 <= Len(l) /\ IsWordChar(l[p - 1])
        after  == p >= 1 /\ p <= Len(l) /\ IsWordChar(l[p])
    IN  before # after

\* first position >= p that is not in the class (the end of a greedy run)
RECURSIVE RunEnd(_, _, _)
RunEnd(l, p, cls) ==
    IF p <= Len(l) /\ l[p] \in cls THEN RunEnd(l, p + 1, cls) ELSE p

-----------------------------------------------------------------------------
(* Header and step-marker patterns *)

\* the words of the alphabet that an INGR_HEADERS pattern finds
INGR_HEADERS == {"ingredients", "ingredient", "composition"}

\* the words of the alphabet that a STEP_HEADERS pattern finds
STEP_HEADERS == {"preparation", "etape", "methode", "cuisson", "instructions", "step"}

\* any(re.search(p, line, re.I) for p in patterns): unanchored, so a word anywhere
SearchAny(patterns, line) == \E i \in 1..Len(line) : line[i] \in patterns

\* STEP_MARK_RE = ^\s*(\d+[\)\.]|\d+\s+|[ee]tape|step)\b
STEP_MARK_RE(line) ==
    LET s == RunEnd(line, 1, {" "})
        d == RunEnd(line, s, Digits)
        w == RunEnd(line, d, {" "})
    IN  \/ d > s /\ d <= Len(line) /\ line[d] \in {")", "."} /\ WordBoundary(line, d + 1)
        \/ d > s /\ w > d /\ WordBoundary(line, w)
        \/ s <= Len(line) /\ line[s] \in {"etape", "step"} /\ WordBoundary(line, s + 1)

\* find_header searching from the top whatever start is
find_header_from_top(lines, patterns, start) ==
    LET hits == {i \in 1..Len(lines) : SearchAny(patterns, lines[i])}
    IN  IF hits = {} THEN NoIndex ELSE SetMin(hits)

\* find_header returning the last matching line
find_header_last(lines, patterns, start) ==
    LET hits == {i \in start..Len(lines) : SearchAny(patterns, lines[i])}
    IN  IF hits = {} THEN NoIndex ELSE SetMax(hits)

find_header(lines, patterns, start) ==
    LET hits == {i \in start..Len(lines) : SearchAny(patterns, lines[i])}
    IN  IF hits = {} THEN NoIndex ELSE SetMin(hits)

\* find_first_step_marker returning the last marker line
find_first_step_marker_last(block_lines) ==
    LET hits == {i \in 1..Len(block_lines) : STEP_MARK_RE(block_lines[i])}
    IN  IF hits = {} THEN NoIndex ELSE SetMax(hits)

find_first_step_marker(block_lines) ==
    LET hits == {i \in 1..Len(block_lines) : STEP_MARK_RE(block_lines[i])}
    IN  IF hits = {} THEN NoIndex ELSE SetMin(hits)

\* lines[a:b] of Python with 1-based inclusive ends
Slice(s, a, b) == SubSeq(s, a, b)

StrippedLines(t) == [i \in 1..Len(t) |-> Strip(t[i])]

SectionsResult(ing, stp, st, nt) ==
    [ingredients |-> ing, steps |-> stp, status |-> st, notes |-> nt]

\* Finish with CONFIDENT as soon as one block is non-empty
Finish_either(ingredients_txt, steps_txt, notes) ==
    SectionsResult(
        ingredients_txt, steps_txt,
        IF ingredients_txt # << >> \/ steps_txt # << >> THEN "CONFIDENT" ELSE "INCOMPLETE",
        notes \o (IF ingredients_txt = << >> THEN <<"empty_ingredients_block">> ELSE << >>)
              \o (IF steps_txt = << >> THEN <<"empty_steps_block">> ELSE << >>))

\* the status and the two empty-block notes that end split_sections
Finish(ingredients_txt, steps_txt, notes) ==
    SectionsResult(
        ingredients_txt, steps_txt,
        IF ingredients_txt # << >> /\ steps_txt # << >> THEN "CONFIDENT" ELSE "INCOMPLETE",
        notes \o (IF ingredients_txt = << >> THEN <<"empty_ingredients_block">> ELSE << >>)
              \o (IF steps_txt = << >> THEN <<"empty_steps_block">> ELSE << >>))

split_sections(t) ==
    LET lines  == StrippedLines(t)
        n      == Len(lines)
        i_ing  == find_header(lines, INGR_HEADERS, 1)
        i_step == find_header(lines, STEP_HEADERS, IF i_ing # NoIndex THEN i_ing + 1 ELSE 1)
        notes  == (IF i_ing = NoIndex THEN <<"missing_ingredients_header">> ELSE << >>)
                  \o (IF i_step = NoIndex THEN <<"missing_steps_header">> ELSE << >>)
    IN  IF n = 0
        THEN SectionsResult(<< >>, << >>, "INCOMPLETE", <<"empty_text">>)
        ELSE IF i_ing = NoIndex /\ i_step # NoIndex
        THEN Finish(JoinStrip(Slice(lines, 1, i_step - 1)),
                    JoinStrip(Slice(lines, i_step + 1, n)),
                    notes \o <<"ingredients_fallback_before_steps">>)
        ELSE IF i_ing # NoIndex /\ i_step = NoIndex
        THEN LET block == Slice(lines, i_ing + 1, n)
                 idx   == find_first_step_marker(block)
             IN  IF idx # NoIndex
                 THEN Finish(JoinStrip(Slice(block, 1, idx - 1)),
                             JoinStrip(Slice(block, idx, Len(block))),
                             notes \o <<"steps_fallback_detected">>)
                 ELSE Finish(JoinStrip(block), << >>, notes)
        ELSE IF i_ing = NoIndex /\ i_step = NoIndex
        THEN LET idx == find_first_step_marker(lines)
             IN  IF idx = NoIndex
                 THEN SectionsResult(<< >>, << >>, "INCOMPLETE", notes)
                 ELSE Finish(JoinStrip(Slice(lines, 1, idx - 1)),
                             JoinStrip(Slice(lines, idx, n)),
                             notes \o <<"fallback_no_headers">>)
        ELSE IF i_step <= i_ing
        THEN SectionsResult(<< >>, << >>, "INCOMPLETE", notes)
        ELSE Finish(JoinStrip(Slice(lines, i_ing + 1, i_step - 1)),
                    JoinStrip(Slice(lines, i_step + 1, n)),
                    notes)

-----------------------------------------------------------------------------
(* Ingredient lines: parse_ingredients_lines, lines_to_list *)

\* first n elements, s[:n]
Take(s, n) == IF Len(s) <= n THEN s ELSE SubSeq(s, 1, n)

\* s[p:] from the 1-based position p
From(s, p) == IF p > Len(s) THEN << >> ELSE SubSeq(s, p, Len(s))

RECURSIVE SelectNonEmpty(_)
SelectNonEmpty(ls) ==
    IF ls = << >> THEN << >>
    ELSE (IF Head(ls) # << >> THEN <<Head(ls)>> ELSE << >>) \o SelectNonEmpty(Tail(ls))

HasDigit(line) == \E i \in 1..Len(line) : IsDigit(line[i])

\* the words of the alphabet that the unit alternatives of ING_LINE_RE and
\* QTY_ONLY_RE match whole
LINE_UNITS == {"g", "gr", "kg", "ml", "l", "cl", "dl", "cs", "cc", "cuillere", "tranche",
               "gousse", "verre", "sachet", "cup"}

\* the words of the alphabet that VERB_RE matches
VERBS == {"ajouter", "ajoute", "melanger", "cuire", "faire", "verser", "chauffer",
          "add", "mix", "cook", "bake", "fry"}

\* the words of the alphabet that start a SKIP_INGR_LINE_RE match
SKIP_STARTS == {"pour", "for", "garniture", "sauce", "pate", "ingredients",
                "ingredient", "serves", "note", "optional", "assaisonnement"}

\* the lines of the alphabet that SKIP_INGR_SIMPLE_RE matches
SKIP_SIMPLE == { <<"sel">>, <<"poivre">>, <<"sel", " ", "et", " ", "poivre">> }

\* VERB_RE.search(line): \b(verb)\b anywhere
VERB_RE(line) ==
    \E i \in 1..Len(line) :
        line[i] \in VERBS /\ WordBoundary(line, i) /\ WordBoundary(line, i + 1)

\* SKIP_INGR_LINE_RE.search(line): ^(word)\b
SKIP_INGR_LINE_RE(line) ==
    Len(line) >= 1 /\ line[1] \in SKIP_STARTS /\ WordBoundary(line, 2)

SKIP_INGR_SIMPLE_RE(line) == line \in SKIP_SIMPLE

\* the ends (position after) of \d+([.,]\d+)? matched from position s
NumberEnds(line, s) ==
    LET d == RunEnd(line, s, Digits)
        f == IF d <= Len(line) /\ line[d] = "." THEN RunEnd(line, d + 1, Digits) ELSE d
    IN  IF d = s THEN {}
        ELSE {d} \cup (IF f > d + 1 THEN {f} ELSE {})

\* the ends of \d+/\d+ matched from position s
FractionEnds(line, s) ==
    LET d == RunEnd(line, s, Digits)
        f == IF d <= Len(line) /\ line[d] = "/" THEN RunEnd(line, d + 1, Digits) ELSE d
    IN  IF d > s /\ f > d + 1 THEN {f} ELSE {}

\* the ends of \d+\s?[-]\s?\d+([.,]\d+)? matched from position s
RangeEnds(line, s) ==
    LET d == RunEnd(line, s, Digits)
        a == {p \in {d, d + 1} : p = d \/ (d <= Len(line) /\ line[d] = " ")}
        b == {p + 1 : p \in {q \in a : q <= Len(line) /\ line[q] = "-"}}
        c == b \cup {p + 1 : p \in {q \in b : q <= Len(line) /\ line[q] = " "}}
    IN  IF d = s THEN {} ELSE UNION {NumberEnds(line, p) : p \in c}

\* \s+(?P<item>.+)$ from position p: a space, then at least one more character
SpaceThenItem(line, p) == p <= Len(line) /\ line[p] = " " /\ p + 1 <= Len(line)

\* ING_LINE_RE.match(line): quantity, optional unit, white space, item
ING_LINE_RE(line) ==
    LET s == RunEnd(line, 1, {" "})
    IN  \E q \in NumberEnds(line, s) \cup FractionEnds(line, s) \cup RangeEnds(line, s) :
            \E a \in q..RunEnd(line, q, {" "}) :
                \/ SpaceThenItem(line, a)
                \/ /\ a <= Len(line)
                   /\ line[a] \in LINE_UNITS
                   /\ SpaceThenItem(line, a + 1)

\* QTY_ONLY_RE.match(line): quantity, optional unit, nothing else
QTY_ONLY_RE(line) ==
    LET s == RunEnd(line, 1, {" "})
    IN  \E q \in NumberEnds(line, s) \cup FractionEnds(line, s) :
            LET a == RunEnd(line, q, {" "})
            IN  \/ a = Len(line) + 1
                \/ /\ a <= Len(line)
                   /\ line[a] \in LINE_UNITS
                   /\ RunEnd(line, a + 1, {" "}) = Len(line) + 1
                \/ /\ a + 2 <= Len(line)
                   /\ line[a] = "cuillere"
                   /\ line[a + 1] = " "
                   /\ line[a + 2] \in {"soupe", "cafe"}
                   /\ RunEnd(line, a + 3, {" "}) = Len(line) + 1

\* normalize_qty_line: of its rewrites the alphabet has the parenthetical
\* clarifier, ^\s*(\d+)\s*\(([^)]+)\)\s*(.+)$ -> "\1 \2 \3"
normalize_qty_line(line) ==
    LET s == RunEnd(line, 1, {" "})
        d == RunEnd(line, s, Digits)
        o == RunEnd(line, d, {" "})
        c == RunEnd(line, o + 1, {x \in {line[i] : i \in 1..Len(line)} : x # ")"})
        r == RunEnd(line, c + 1, {" "})
    IN  IF /\ d > s
           /\ o <= Len(line) /\ line[o] = "("
           /\ c > o + 1
           /\ c <= Len(line) /\ line[c] = ")"
           /\ c + 1 <= Len(line)
        THEN SubSeq(line, s, d - 1) \o <<" ">> \o SubSeq(line, o + 1, c - 1) \o <<" ">>
             \o (IF r <= Len(line) THEN From(line, r) ELSE <<line[Len(line)]>>)
        ELSE line

\* re.sub(r"^[\-*+]+\s*", "", raw).strip()
StripBullet(raw) ==
    LET b == RunEnd(raw, 1, {"-"})
    IN  IF b > 1 THEN Strip(From(raw, RunEnd(raw, b, {" "}))) ELSE Strip(raw)

\* the cap of the raw-lines fallback, raw_lines[:80]
RawFallbackCap == 80

ParsedLines(v, inv) == [valid |-> v, invalid |-> inv]

\* the while loop without the test of lines 607-610
RECURSIVE ParseLoop_no_verb_test(_, _, _, _)
ParseLoop_no_verb_test(lines, i, valid, invalid) ==
    IF i > Len(lines) THEN ParsedLines(valid, invalid)
    ELSE
        LET line == lines[i]
        IN  IF line[Len(line)] = ":" /\ ~HasDigit(line)
            THEN ParseLoop_no_verb_test(lines, i + 1, valid, invalid)
            ELSE IF SKIP_INGR_LINE_RE(line) \/ SKIP_INGR_SIMPLE_RE(line)
            THEN ParseLoop_no_verb_test(lines, i + 1, valid, invalid)
            ELSE
                LET merge  == /\ QTY_ONLY_RE(line)
                              /\ i + 1 <= Len(lines)
                              /\ ~SKIP_INGR_LINE_RE(lines[i + 1])
                              /\ ~HasDigit(lines[i + 1])
                    merged == IF merge THEN line \o <<" ">> \o lines[i + 1] ELSE line
                    j      == IF merge THEN i + 1 ELSE i
                    norm   == normalize_qty_line(merged)
                IN  IF ~ING_LINE_RE(norm)
                    THEN ParseLoop_no_verb_test(lines, j + 1, valid, Append(invalid, norm))
                    ELSE ParseLoop_no_verb_test(lines, j + 1, Append(valid, norm), invalid)

\* the while loop without the extra step over a merged line (line 605)
RECURSIVE ParseLoop_reprocess_merged(_, _, _, _)
ParseLoop_reprocess_merged(lines, i, valid, invalid) ==
    IF i > Len(lines) THEN ParsedLines(valid, invalid)
    ELSE
        LET line == lines[i]
        IN  IF line[Len(line)] = ":" /\ ~HasDigit(line)
            THEN ParseLoop_reprocess_merged(lines, i + 1, valid, invalid)
            ELSE IF SKIP_INGR_LINE_RE(line) \/ SKIP_INGR_SIMPLE_RE(line)
            THEN ParseLoop_reprocess_merged(lines, i + 1, valid, invalid)
            ELSE
                LET merge  == /\ QTY_ONLY_RE(line)
                              /\ i + 1 <= Len(lines)
                              /\ ~SKIP_INGR_LINE_RE(lines[i + 1])
                              /\ ~HasDigit(lines[i + 1])
                    merged == IF merge THEN line \o <<" ">> \o lines[i + 1] ELSE line
                    norm   == normalize_qty_line(merged)
                IN  IF VERB_RE(norm)
                    THEN ParseLoop_reprocess_merged(lines, i + 1, valid, Append(invalid, norm))
                    ELSE IF ~ING_LINE_RE(norm)
                    THEN ParseLoop_reprocess_merged(lines, i + 1, valid, Append(invalid, norm))
                    ELSE ParseLoop_reprocess_merged(lines, i + 1, Append(valid, norm), invalid)

\* the while loop of parse_ingredients_lines from position i
RECURSIVE ParseLoop(_, _, _, _)
ParseLoop(lines, i, valid, invalid) ==
    IF i > Len(lines) THEN ParsedLines(valid, invalid)
    ELSE
        LET line == lines[i]
        IN  IF line[Len(line)] = ":" /\ ~HasDigit(line)
            THEN ParseLoop(lines, i + 1, valid, invalid)
            ELSE IF SKIP_INGR_LINE_RE(line) \/ SKIP_INGR_SIMPLE_RE(line)
            THEN ParseLoop(lines, i + 1, valid, invalid)
            ELSE
                LET merge  == /\ QTY_ONLY_RE(line)
                              /\ i + 1 <= Len(lines)
                              /\ ~SKIP_INGR_LINE_RE(lines[i + 1])
                              /\ ~HasDigit(lines[i + 1])
                    merged == IF merge THEN line \o <<" ">> \o lines[i + 1] ELSE line
                    j      == IF merge THEN i + 1 ELSE i
                    norm   == normalize_qty_line(merged)
                IN  IF VERB_RE(norm)
                    THEN ParseLoop(lines, j + 1, valid, Append(invalid, norm))
                    ELSE IF ~ING_LINE_RE(norm)
                    THEN ParseLoop(lines, j + 1, valid, Append(invalid, norm))
                    ELSE ParseLoop(lines, j + 1, Append(valid, norm), invalid)

\* what the while loop does with each line from position i on: "skipped",
\* "valid" or "invalid" for the candidate that starts at the line, "merged"
\* for a line joined to the quantity line before it
RECURSIVE ParseFates(_, _, _)
ParseFates(lines, i, fates) ==
    IF i > Len(lines) THEN fates
    ELSE
        LET line == lines[i]
        IN  IF line[Len(line)] = ":" /\ ~HasDigit(line)
            THEN ParseFates(lines, i + 1, Append(fates, "skipped"))
            ELSE IF SKIP_INGR_LINE_RE(line) \/ SKIP_INGR_SIMPLE_RE(line)
            THEN ParseFates(lines, i + 1, Append(fates, "skipped"))
            ELSE
                LET merge  == /\ QTY_ONLY_RE(line)
                              /\ i + 1 <= Len(lines)
                              /\ ~SKIP_INGR_LINE_RE(lines[i + 1])
                              /\ ~HasDigit(lines[i + 1])
                    merged == IF merge THEN line \o <<" ">> \o lines[i + 1] ELSE line
                    norm   == normalize_qty_line(merged)
                    fate   == IF VERB_RE(norm) \/ ~ING_LINE_RE(norm)
                              THEN "invalid" ELSE "valid"
                IN  IF merge
                    THEN ParseFates(lines, i + 2, fates \o <<fate, "merged">>)
                    ELSE ParseFates(lines, i + 1, Append(fates, fate))

\* parse_ingredients_lines without the fallback of lines 619-621
parse_ingredients_lines_no_fallback(block) ==
    ParseLoop(SelectNonEmpty([i \in 1..Len(block) |-> StripBullet(block[i])]),
              1, << >>, << >>)

parse_ingredients_lines(block) ==
    LET raw_lines == [i \in 1..Len(block) |-> StripBullet(block[i])]
        lines     == SelectNonEmpty(raw_lines)
        parsed    == ParseLoop(lines, 1, << >>, << >>)
    IN  IF parsed.valid = << >> /\ raw_lines # << >>
        THEN ParsedLines(Take(raw_lines, RawFallbackCap), << >>)
        ELSE parsed

\* re.sub(r"^[\-*\+\d.\)\s]+", "", l).strip()
StripNumbering(l) == Strip(From(l, RunEnd(l, 1, {"-", ".", ")", " "} \cup Digits)))

lines_to_list(block) == SelectNonEmpty([i \in 1..Len(block) |-> StripNumbering(block[i])])

-----------------------------------------------------------------------------
(* Numbers: exact fractions <<numerator, denominator>> stand for the floats *)

RECURSIVE GCD(_, _)
GCD(a, b) == IF b = 0 THEN a ELSE GCD(b, a % b)

Rat(n, d) == LET g == GCD(n, d) IN IF g = 0 THEN <<0, 1>> ELSE <<n \div g, d \div g>>

RatAdd(a, b) ==
    LET g == GCD(a[2], b[2])
    IN  Rat(a[1] * (b[2] \div g) + b[1] * (a[2] \div g), (a[2] \div g) * b[2])

RatMul(a, b) ==
    LET x == Rat(a[1], b[2])
        y == Rat(b[1], a[2])
    IN  <<x[1] * y[1], x[2] * y[2]>>

\* round(x) of a non-negative x = n/d to an integer, ties to the even neighbour
RoundHalfEven(n, d) ==
    LET q == n \div d
        r == n % d
    IN  IF 2 * r < d THEN q
        ELSE IF 2 * r > d THEN q + 1
        ELSE IF q % 2 = 0 THEN q ELSE q + 1

\* round(x): an integer
Round0(x) == RoundHalfEven(x[1], x[2])

\* round(x, 1), in tenths.  The fractions are exact; the binary floats of the
\* code can fall on the other side of a one-decimal figure only when the exact
\* value is a tie (x.x5), where the float of the value is not the value.
Round1(x) == Round0(RatMul(<<10, 1>>, x))

DigitValue(c) == CASE c = "0" -> 0 [] c = "1" -> 1 [] c = "2" -> 2 [] c = "5" -> 5

\* int(digits)
RECURSIVE IntOf(_)
IntOf(ds) == IF ds = << >> THEN 0 ELSE 10 * IntOf(SubSeq(ds, 1, Len(ds) - 1)) + DigitValue(ds[Len(ds)])

RECURSIVE Pow10(_)
Pow10(n) == IF n = 0 THEN 1 ELSE 10 * Pow10(n - 1)

-----------------------------------------------------------------------------
(* Nutrition: load_nutrition_table, match_food, parse_quantity, compute_nutrition *)

\* a row of the food table; densities are in tenths per 100 g and
\* grams_per_unit 0 stands for the empty column
FoodRow(food, aliases, unit, gpu, kcal, prot, fat, carb) ==
    [food |-> food, aliases |-> aliases, unit |-> unit, grams_per_unit |-> gpu,
     kcal_per_100g |-> kcal, protein_g_per_100g |-> prot,
     fat_g_per_100g |-> fat, carb_g_per_100g |-> carb]

\* deaccent(s.lower()): the words of the alphabet written with a capital or
\* an accent, and what they become
FOLDED == [w \in {"Poulet", "Pates"} |-> IF w = "Poulet" THEN "poulet" ELSE "pates"]

deaccent_lower(l) == [i \in 1..Len(l) |-> IF l[i] \in DOMAIN FOLDED THEN FOLDED[l[i]] ELSE l[i]]

builtin ==
    << FoodRow(<<"poulet">>, << <<"blanc", " ", "de", " ", "poulet">>, <<"poulet">> >>,
               "g", 0, 1650, 310, 36, 0),
       FoodRow(<<"pomme", " ", "de", " ", "terre">>,
               << <<"pdt">>, <<"pommes", " ", "de", " ", "terre">>, <<"patate">> >>,
               "g", 0, 770, 20, 1, 170),
       FoodRow(<<"riz", " ", "basmati">>, << <<"riz">> >>, "g", 0, 3600, 70, 6, 790),
       FoodRow(<<"p", "~", "tes">>, << <<"pates">>, <<"spaghetti">>, <<"tagliatelles">> >>,
               "g", 0, 3500, 120, 15, 730),
       FoodRow(<<"carotte">>, << <<"carottes">> >>, "g", 0, 410, 9, 2, 100),
       FoodRow(<<"oignon">>, << <<"oignons">> >>, "unit", 110, 400, 11, 1, 90),
       FoodRow(<<"huile", " ", "d", "~", "olive">>,
               << <<"huile", " ", "olive">>, <<"huile">> >>, "ml", 0, 8840, 0, 1000, 0) >>

\* nutrition_table.csv beside the script: absent, present and not readable as
\* utf-8 text, or present with its rows
NoCsv == [exists |-> FALSE, readable |-> FALSE, rows |-> << >>]

UnreadableCsv == [exists |-> TRUE, readable |-> FALSE, rows |-> << >>]

Csv(rows) == [exists |-> TRUE, readable |-> TRUE, rows |-> rows]

\* existing: the folded names of the external rows that have a name
existing(rows) == {deaccent_lower(rows[i].food) : i \in {j \in 1..Len(rows) : rows[j].food # << >>}}

\* load_nutrition_table keyed by the names as written, without folding
load_nutrition_table_exact_names(csv) ==
    LET names == {csv.rows[i].food : i \in 1..Len(csv.rows)}
        NotExisting(b) == b.food \notin names
    IN  IF csv.exists /\ csv.readable THEN csv.rows \o SelectSeq(builtin, NotExisting)
        ELSE builtin

\* load_nutrition_table: the external rows, then the built-in rows whose
\* folded name no external row has; the built-in table when there is no file
\* or reading it raises
load_nutrition_table(csv) ==
    LET NotExisting(b) == deaccent_lower(b.food) \notin existing(csv.rows)
    IN  IF csv.exists /\ csv.readable THEN csv.rows \o SelectSeq(builtin, NotExisting)
        ELSE builtin

\* the table in use: no nutrition_table.csv beside the script
NUTRI == load_nutrition_table(NoCsv)

\* re.sub(r"[^a-z0-9]+", " ", line): every run of other characters is one space
RECURSIVE CollapseNonAlnum(_)
CollapseNonAlnum(l) ==
    IF l = << >> THEN << >>
    ELSE IF IsWordChar(Head(l)) THEN <<Head(l)>> \o CollapseNonAlnum(Tail(l))
    ELSE <<" ">> \o CollapseNonAlnum(From(l, RunEnd(l, 1, Punct)))

\* re.search(rf"\b{re.escape(t)}\b", base)
FindWholeWord(t, base) ==
    /\ t # << >>
    /\ \E p \in 1..(Len(base) - Len(t) + 1) :
           /\ SubSeq(base, p, p + Len(t) - 1) = t
           /\ WordBoundary(base, p)
           /\ WordBoundary(base, p + Len(t))

\* tokens: the name of the row and its aliases, folded
RowNames(row) ==
    [i \in 1..(1 + Len(row.aliases)) |-> deaccent_lower((<<row.food>> \o row.aliases)[i])]

RowMatches(row, base) ==
    \E i \in 1..Len(RowNames(row)) : FindWholeWord(RowNames(row)[i], base)

\* the loop of match_food keeping the last matching row
match_food_in_last(table, line) ==
    LET base == <<" ">> \o CollapseNonAlnum(deaccent_lower(line)) \o <<" ">>
        hits == {i \in 1..Len(table) : RowMatches(table[i], base)}
    IN  IF hits = {} THEN NoIndex ELSE SetMax(hits)

\* the loop of match_food over a table: the position of the first matching
\* row, NoIndex for None
match_food_in(table, line) ==
    LET base == <<" ">> \o CollapseNonAlnum(deaccent_lower(line)) \o <<" ">>
        hits == {i \in 1..Len(table) : RowMatches(table[i], base)}
    IN  IF hits = {} THEN NoIndex ELSE SetMin(hits)

\* match_food: the position in NUTRI of the first matching row, NoIndex for None
match_food(line) == match_food_in(NUTRI, line)

\* what the unit group of QTY_RE matches at the start of a word of the alphabet
\* (the alternatives are tried in order and need no word end: "gousse" gives "g")
QTY_UNITS ==
    [w \in {"g", "gr", "garniture", "gousse", "ml", "cl", "l", "lardons", "cs", "cc",
            "cuillere", "tranche", "piece", "sachet", "verre", "cup"} |->
        CASE w \in {"g", "gr", "garniture", "gousse"} -> "g"
          [] w = "lardons" -> "l"
          [] OTHER -> w]

\* the end of \d+[.,]?\d* started at p: the first alternative of the number
QtyDecimalEnd(line, p) ==
    LET d == RunEnd(line, p, Digits)
    IN  IF d <= Len(line) /\ line[d] = "." THEN RunEnd(line, d + 1, Digits) ELSE d

\* the end of \d+\s*/\s*\d+ started at p, NoIndex when it does not match there
QtyFractionEnd(line, p) ==
    LET d == RunEnd(line, p, Digits)
        a == RunEnd(line, d, {" "})
        b == RunEnd(line, a + 1, {" "})
        c == RunEnd(line, b, Digits)
    IN  IF d > p /\ a <= Len(line) /\ line[a] = "/" /\ c > b THEN c ELSE NoIndex

\* \s* and then a unit, from position e
QtyUnitAt(line, e) ==
    LET u == RunEnd(line, e, {" "})
    IN  u <= Len(line) /\ line[u] \in DOMAIN QTY_UNITS

\* the end of the number group of the match of QTY_RE that starts at p: the
\* decimal alternative is tried first, the fraction when no unit follows it
QtyNumEnd(line, p) ==
    IF QtyUnitAt(line, QtyDecimalEnd(line, p)) THEN QtyDecimalEnd(line, p)
    ELSE QtyFractionEnd(line, p)

\* QTY_RE matches with its number starting at p
QtyMatchAt(line, p) ==
    /\ IsDigit(line[p])
    /\ \/ QtyUnitAt(line, QtyDecimalEnd(line, p))
       \/ QtyFractionEnd(line, p) # NoIndex /\ QtyUnitAt(line, QtyFractionEnd(line, p))

\* the unit group of the match whose unit starts at u: after cuillere, \s? and
\* then soupe or cafe are taken when they are next
QtyUnit(line, u) ==
    IF /\ line[u] = "cuillere"
       /\ u + 2 <= Len(line)
       /\ line[u + 1] = " "
       /\ line[u + 2] \in {"soupe", "cafe"}
    THEN IF line[u + 2] = "soupe" THEN "cuillere soupe" ELSE "cuillere cafe"
    ELSE QTY_UNITS[line[u]]

\* "/" in num_str, for the number line[p..e-1]
IsFraction(line, p, e) == \E i \in p..(e - 1) : line[i] = "/"

\* b of a, b = num_str.split("/"), as an integer
Denominator(line, p, e) ==
    LET a == RunEnd(line, RunEnd(line, p, Digits), {" "})
    IN  IntOf(SubSeq(line, RunEnd(line, a + 1, {" "}), e - 1))

\* _to_float raises ZeroDivisionError: float(a) / float(b) with b = 0
ToFloatRaises(line, p, e) == IsFraction(line, p, e) /\ Denominator(line, p, e) = 0

\* _to_float of the number line[p..e-1], when it does not raise
ToFloat(line, p, e) ==
    LET d == RunEnd(line, p, Digits)
    IN  IF IsFraction(line, p, e)
        THEN Rat(IntOf(SubSeq(line, p, d - 1)), Denominator(line, p, e))
        ELSE IF d = e THEN <<IntOf(SubSeq(line, p, d - 1)), 1>>
        ELSE Rat(IntOf(SubSeq(line, p, d - 1)) * Pow10(e - d - 1) + IntOf(SubSeq(line, d + 1, e - 1)),
                 Pow10(e - d - 1))

\* "huile" in alias_all
OilLike(row) ==
    \E i \in 1..Len(RowNames(row)) :
        \E p \in 1..Len(RowNames(row)[i]) : RowNames(row)[i][p] = "huile"

\* the default weight when the line has no (number, unit) pair
DefaultGrams == 100

TablespoonOilGrams == 15

TablespoonGrams == 12

TeaspoonGrams == 5

SliceGrams == 30

CloveGrams == 5

CupOilMl == 220

CupMl == 240

\* the starts of the matches of QTY_RE in the line
QtyStarts(line) == {p \in 1..Len(line) : QtyMatchAt(line, p)}

\* parse_quantity raises: the exception of _to_float, line 712, is not caught
parse_quantity_raises(line, row) ==
    /\ QtyStarts(line) # {}
    /\ ToFloatRaises(line, SetMin(QtyStarts(line)), QtyNumEnd(line, SetMin(QtyStarts(line))))

\* lines 716-736: the grams for a value and a unit
GramsFor(val, unit, row) ==
    IF unit \in {"cs", "cuillere soupe"}
    THEN RatMul(val, <<IF OilLike(row) THEN TablespoonOilGrams ELSE TablespoonGrams, 1>>)
    ELSE IF unit \in {"cc", "cuillere cafe"} THEN RatMul(val, <<TeaspoonGrams, 1>>)
    ELSE IF unit = "ml" THEN val
    ELSE IF unit = "cl" THEN RatMul(val, <<10, 1>>)
    ELSE IF unit = "l" THEN RatMul(val, <<1000, 1>>)
    ELSE IF unit \in {"piece", "tranche"}
    THEN RatMul(val, <<IF row.grams_per_unit # 0 THEN row.grams_per_unit
                       ELSE IF unit = "tranche" THEN SliceGrams
                       ELSE CloveGrams, 1>>)
    ELSE IF unit \in {"cup", "verre"}
    THEN RatMul(val, <<IF OilLike(row) THEN CupOilMl ELSE CupMl, 1>>)
    ELSE IF unit = "g" THEN val
    ELSE RatMul(val, <<100, 1>>)

\* lines 712-713: the value and the unit of the match whose number is line[p..e-1]
GramsOfMatch(line, row, p, e) ==
    GramsFor(ToFloat(line, p, e), QtyUnit(line, RunEnd(line, e, {" "})), row)

\* the match of QTY_RE.search: the leftmost one
GramsAt(line, row, p) == GramsOfMatch(line, row, p, QtyNumEnd(line, p))

\* parse_quantity: grams as a fraction, when it does not raise
parse_quantity(line, row) ==
    IF QtyStarts(line) = {}
    THEN IF row.unit = "unit"
         THEN <<IF row.grams_per_unit # 0 THEN row.grams_per_unit ELSE DefaultGrams, 1>>
         ELSE <<DefaultGrams, 1>>
    ELSE GramsAt(line, row, SetMin(QtyStarts(line)))

Totals(kc, pr, fa, ca) == [kcal |-> kc, prot |-> pr, fat |-> fa, carb |-> ca]

\* lines 752-755: the totals with density x qty_g / 100 added for one row
AddLine(totals, row, qty_g) ==
    Totals(RatAdd(totals.kcal, RatMul(<<row.kcal_per_100g, 1000>>, qty_g)),
           RatAdd(totals.prot, RatMul(<<row.protein_g_per_100g, 1000>>, qty_g)),
           RatAdd(totals.fat, RatMul(<<row.fat_g_per_100g, 1000>>, qty_g)),
           RatAdd(totals.carb, RatMul(<<row.carb_g_per_100g, 1000>>, qty_g)))

\* lines 743-755: one line of the list whose row is at position r of NUTRI
AddMatched(totals, line, r) ==
    IF r = NoIndex THEN totals
    ELSE AddLine(totals, NUTRI[r], parse_quantity(line, NUTRI[r]))

\* the for loop of compute_nutrition over ingredients[i..]
RECURSIVE SumLines(_, _, _)
SumLines(ingredients, i, totals) ==
    IF i > Len(ingredients) THEN totals
    ELSE SumLines(ingredients, i + 1,
                  AddMatched(totals, ingredients[i], match_food(ingredients[i])))

\* a matched line of the list makes parse_quantity raise
compute_nutrition_raises(ingredients) ==
    \E i \in 1..Len(ingredients) :
        /\ match_food(ingredients[i]) # NoIndex
        /\ parse_quantity_raises(ingredients[i], NUTRI[match_food(ingredients[i])])

ZeroTotals == Totals(<<0, 1>>, <<0, 1>>, <<0, 1>>, <<0, 1>>)

\* lines 757-770: the figures for the totals and the clamped portions
NutritionOf(totals, n) ==
    [total_kcal |-> Round0(totals.kcal),
     kcal_per_portion |-> Round0(RatMul(totals.kcal, <<1, n>>)),
     proteins_g |-> Round1(totals.prot),
     lipids_g |-> Round1(totals.fat),
     carbs_g |-> Round1(totals.carb),
     proteins_g_per_portion |-> Round1(RatMul(totals.prot, <<1, n>>)),
     lipids_g_per_portion |-> Round1(RatMul(totals.fat, <<1, n>>)),
     carbs_g_per_portion |-> Round1(RatMul(totals.carb, <<1, n>>)),
     portions |-> n]

\* compute_nutrition: kcal as integers, grams of macros in tenths
compute_nutrition(ingredients, portions) ==
    NutritionOf(SumLines(ingredients, 1, ZeroTotals), IF portions >= 1 THEN portions ELSE 1)

\* round(x) of a binary float whose exact value is x: the nearest integer,
\* and either neighbour when x is a tie, since the float of a sum need not be
\* the sum
Rounds0(x) == {q \in {x[1] \div x[2], x[1] \div x[2] + 1} :
                  2 * (IF x[1] >= q * x[2] THEN x[1] - q * x[2] ELSE q * x[2] - x[1]) <= x[2]}

\* round(x, 1) of such a float, in tenths
Rounds1(x) == Rounds0(RatMul(<<10, 1>>, x))

\* the figures with the per-portion ones taken from the rounded totals
NutritionResultsOf_per_from_rounded(totals, n) ==
    [total_kcal : Rounds0(totals.kcal),
     kcal_per_portion : UNION {Rounds0(<<r, n>>) : r \in Rounds0(totals.kcal)},
     proteins_g : Rounds1(totals.prot),
     lipids_g : Rounds1(totals.fat),
     carbs_g : Rounds1(totals.carb),
     proteins_g_per_portion : UNION {Rounds0(<<r, n>>) : r \in Rounds1(totals.prot)},
     lipids_g_per_portion : UNION {Rounds0(<<r, n>>) : r \in Rounds1(totals.fat)},
     carbs_g_per_portion : UNION {Rounds0(<<r, n>>) : r \in Rounds1(totals.carb)},
     portions : {n}]

\* the figures compute_nutrition can return in binary floating point
NutritionResultsOf(totals, n) ==
    [total_kcal : Rounds0(totals.kcal),
     kcal_per_portion : Rounds0(RatMul(totals.kcal, <<1, n>>)),
     proteins_g : Rounds1(totals.prot),
     lipids_g : Rounds1(totals.fat),
     carbs_g : Rounds1(totals.carb),
     proteins_g_per_portion : Rounds1(RatMul(totals.prot, <<1, n>>)),
     lipids_g_per_portion : Rounds1(RatMul(totals.fat, <<1, n>>)),
     carbs_g_per_portion : Rounds1(RatMul(totals.carb, <<1, n>>)),
     portions : {n}]

\* the figures compute_nutrition can return in binary floating point: those
\* of compute_nutrition above, and at a tie of the exact value the figure on
\* either side
compute_nutrition_results(ingredients, portions) ==
    NutritionResultsOf(SumLines(ingredients, 1, ZeroTotals),
                       IF portions >= 1 THEN portions ELSE 1)

\* the figures of a record that is not CONFIDENT, lines 823-830
NoNutrition ==
    [total_kcal |-> 0, kcal_per_portion |-> 0, proteins_g |-> 0, lipids_g |-> 0,
     carbs_g |-> 0, nutrition_details |-> << >>]

-----------------------------------------------------------------------------
(* Titles and portions: normalize_title, title_key, parse_portions *)

\* normalize_title: folded, runs of non-alphanumerics become one space, then strip
normalize_title(name) == Strip(CollapseNonAlnum(deaccent_lower(name)))

_TITLE_STOP_WORDS ==
    { <<"de">>, <<"du">>, <<"des">>, <<"la">>, <<"le">>, <<"les">>, <<"au">>, <<"aux">>,
      <<"a">>, <<"et">>, <<"en">>, <<"d">>, <<"l">>, <<"un">>, <<"une">>, <<"avec">>,
      <<"sans">> }

\* base.split(" "): the runs between spaces, empty ones left out
RECURSIVE SplitSpaces(_)
SplitSpaces(l) ==
    IF l = << >> THEN << >>
    ELSE IF Head(l) = " " THEN SplitSpaces(Tail(l))
    ELSE LET e == RunEnd(l, 1, {x \in {l[i] : i \in 1..Len(l)} : x # " "})
         IN  <<SubSeq(l, 1, e - 1)>> \o SplitSpaces(From(l, e))

\* the words and digits of the alphabet in string order
WORD_ORDER ==
    <<"0", "1", "2", "5", "a", "ajouter", "au", "avec", "blanc", "carotte", "carottes",
      "composition", "curry", "d", "de", "et", "g", "huile", "ingredients", "l",
      "oignon", "oignons", "olive", "pates", "pers", "personnes", "poulet", "pour", "preparation",
      "riz", "step">>

Rank(w) == CHOOSE i \in 1..Len(WORD_ORDER) : WORD_ORDER[i] = w

\* a < b for two space-free strings
RECURSIVE StrLess(_, _)
StrLess(a, b) ==
    IF b = << >> THEN FALSE
    ELSE IF a = << >> THEN TRUE
    ELSE IF Head(a) = Head(b) THEN StrLess(Tail(a), Tail(b))
    ELSE Rank(Head(a)) < Rank(Head(b))

\* tokens.sort()
RECURSIVE SortStrings(_)
SortStrings(ts) ==
    IF ts = << >> THEN << >>
    ELSE LET m == CHOOSE i \in 1..Len(ts) : \A j \in 1..Len(ts) : ~StrLess(ts[j], ts[i])
         IN  <<ts[m]>> \o SortStrings(SubSeq(ts, 1, m - 1) \o From(ts, m + 1))

\* " ".join(tokens)
RECURSIVE JoinSpaces(_)
JoinSpaces(ts) ==
    IF ts = << >> THEN << >>
    ELSE IF Len(ts) = 1 THEN ts[1]
    ELSE ts[1] \o <<" ">> \o JoinSpaces(Tail(ts))

RECURSIVE DropStopWords(_)
DropStopWords(ts) ==
    IF ts = << >> THEN << >>
    ELSE (IF Head(ts) \in _TITLE_STOP_WORDS THEN << >> ELSE <<Head(ts)>>)
         \o DropStopWords(Tail(ts))

\* title_key without tokens.sort()
title_key_unsorted(name) ==
    LET base == normalize_title(name)
    IN  IF base = << >> THEN << >>
        ELSE JoinSpaces(DropStopWords(SplitSpaces(base)))

title_key(name) ==
    LET base == normalize_title(name)
    IN  IF base = << >> THEN << >>
        ELSE JoinSpaces(SortStrings(DropStopWords(SplitSpaces(base))))

\* "\n".join of a block's lines, the line break as the token "\n"
RECURSIVE JoinLines(_)
JoinLines(block) ==
    IF block = << >> THEN << >>
    ELSE IF Len(block) = 1 THEN block[1]
    ELSE block[1] \o <<"\n">> \o JoinLines(Tail(block))

\* the portions of a recipe that names none
DefaultPortions == 3

\* parse_portions: pour\s+(\d+)\s*(pers|personnes?) in title, ingredients, steps
parse_portions(title, ingredients_raw, steps_raw) ==
    LET txt == title \o <<" ">> \o JoinLines(ingredients_raw) \o <<" ">> \o JoinLines(steps_raw)
        ws  == {" ", "\n"}
        num(p) == RunEnd(txt, p + 1, ws)
        hits == {p \in 1..Len(txt) :
                    /\ txt[p] = "pour"
                    /\ num(p) > p + 1
                    /\ RunEnd(txt, num(p), Digits) > num(p)
                    /\ LET u == RunEnd(txt, RunEnd(txt, num(p), Digits), ws)
                       IN  u <= Len(txt) /\ txt[u] \in {"pers", "personne", "personnes"}}
    IN  IF hits = {} THEN DefaultPortions
        ELSE LET p == SetMin(hits)
             IN  IntOf(SubSeq(txt, num(p), RunEnd(txt, num(p), Digits) - 1))

-----------------------------------------------------------------------------
(* One document of the loop of main *)

\* ingredients_list = parsed_ing["valid"][:120]
IngredientsCap == 120

\* steps_list = ...[:200]
StepsCap == 200

\* lines 801-803
StepsList(steps) ==
    LET listed == Take(lines_to_list(steps), StepsCap)
    IN  IF listed = << >> /\ steps # << >>
        THEN Take(SelectNonEmpty([i \in 1..Len(steps) |-> Strip(steps[i])]), StepsCap)
        ELSE listed

\* StatusAndNotes giving PARTIAL as soon as one of the two lists is there
StatusAndNotes_one_block(sec, invalid, ingredients_list, steps_list) ==
    [status |-> IF ingredients_list # << >> /\ steps_list # << >>
                THEN (IF invalid = << >> THEN sec.status ELSE "PARTIAL")
                ELSE IF ingredients_list # << >> \/ steps_list # << >>
                THEN "PARTIAL" ELSE "INCOMPLETE",
     notes  |-> sec.notes
                \o (IF ingredients_list = << >> THEN <<"no_valid_ingredients">> ELSE << >>)
                \o (IF steps_list = << >> THEN <<"no_steps">> ELSE << >>)]

\* StatusAndNotes adding no note of its own
StatusAndNotes_silent(sec, invalid, ingredients_list, steps_list) ==
    [status |-> IF ingredients_list # << >> /\ steps_list # << >>
                THEN (IF invalid = << >> THEN sec.status ELSE "PARTIAL")
                ELSE "INCOMPLETE",
     notes  |-> << >>]

\* lines 806-821: the status and the notes of the record
StatusAndNotes(sec, invalid, ingredients_list, steps_list) ==
    LET both == ingredients_list # << >> /\ steps_list # << >>
        st1  == IF invalid = << >> THEN sec.status
                ELSE IF both THEN "PARTIAL" ELSE "INCOMPLETE"
        nt1  == IF invalid = << >> THEN sec.notes
                ELSE IF both THEN sec.notes \o <<"partial_invalid_ingredients">>
                ELSE sec.notes \o <<"invalid_ingredient_lines">>
    IN  [status |-> IF both THEN st1 ELSE "INCOMPLETE",
         notes  |-> nt1
                    \o (IF ingredients_list = << >> THEN <<"no_valid_ingredients">> ELSE << >>)
                    \o (IF steps_list = << >> THEN <<"no_steps">> ELSE << >>)]

\* NutritionFor computing the figures of every record that has both lists
NutritionFor_unless_incomplete(status, ingredients_list, portions) ==
    IF status # "INCOMPLETE" THEN compute_nutrition(ingredients_list, portions)
    ELSE NoNutrition

\* line 823: the figures of the record
NutritionFor(status, ingredients_list, portions) ==
    IF status = "CONFIDENT" THEN compute_nutrition(ingredients_list, portions)
    ELSE NoNutrition

\* lines 823-855: the record, once the status is known
EntryWithStatus(file, sec, parsed_ing, ingredients_list, steps_list, sn) ==
    [title |-> file.name,
     normalized_title |-> normalize_title(file.name),
     title_key |-> title_key(file.name),
     file_id |-> file.id,
     ingredients_raw |-> sec.ingredients,
     steps_raw |-> sec.steps,
     ingredients |-> ingredients_list,
     steps |-> steps_list,
     parse_status |-> sn.status,
     parse_notes |-> sn.notes,
     ingredients_invalid |-> parsed_ing.invalid]
    @@ NutritionFor(sn.status, ingredients_list,
                    parse_portions(file.name, sec.ingredients, sec.steps))

\* lines 800-821: the two lists, then the status and the notes
EntryFromParsed(file, sec, parsed_ing, ingredients_list, steps_list) ==
    EntryWithStatus(file, sec, parsed_ing, ingredients_list, steps_list,
                    StatusAndNotes(sec, parsed_ing.invalid, ingredients_list, steps_list))

\* lines 799-801: the ingredients block parsed, the steps block listed
EntryFromSections(file, sec, parsed_ing) ==
    EntryFromParsed(file, sec, parsed_ing,
                    Take(parsed_ing.valid, IngredientsCap), StepsList(sec.steps))

\* line 799: the ingredients block parsed
EntryFromText(file, sec) ==
    EntryFromSections(file, sec, parse_ingredients_lines(sec.ingredients))

\* lines 798-855: the record of a document with text
Entry(file) == EntryFromText(file, split_sections(file.text))

\* lines 858-868: the row of recipes_nutrition.csv
NutritionRow(file, entry) ==
    <<file.name,
      parse_portions(file.name, entry.ingredients_raw, entry.steps_raw),
      entry.total_kcal, entry.kcal_per_portion,
      entry.proteins_g, entry.lipids_g, entry.carbs_g>>

-----------------------------------------------------------------------------
(* Inputs *)

\* the lines texts are made of
SampleLines ==
    { << >>,
      <<" ">>,
      <<"ingredients">>,
      <<"preparation">>,
      <<"poulet">>,
      <<"1", " ", "poulet">>,
      <<"1", ".", " ", "ajouter">>,
      <<"step", " ", "1">> }

Texts == UNION {[1..n -> SampleLines] : n \in 0..MaxLines}

NoSections == SectionsResult(<< >>, << >>, "none", << >>)

-----------------------------------------------------------------------------
(* split_sections applied to one text *)

NotWritten == [written |-> FALSE, rows |-> << >>]

Written(rows) == [written |-> TRUE, rows |-> rows]

InitSplit ==
    /\ text \in Texts
    /\ sections = NoSections
    /\ files = << >>
    /\ k = 0
    /\ index = << >>
    /\ nutrition_rows = << >>
    /\ out_json = NotWritten
    /\ out_csv = NotWritten
    /\ out_nutr = NotWritten
    /\ args = << >>
    /\ ret = << >>
    /\ pc = "split"

SplitSections ==
    /\ pc = "split"
    /\ sections' = split_sections(text)
    /\ pc' = "split_done"
    /\ UNCHANGED <<text, files, k, index, nutrition_rows, out_json, out_csv, out_nutr, args, ret>>

NextSplit == SplitSections

SpecSplit == InitSplit /\ [][NextSplit]_vars

-----------------------------------------------------------------------------
(* parse_ingredients_lines applied to one block *)

\* the lines the blocks are made of
BlockLines ==
    { << >>,
      <<"1", " ", "poulet">>,
      <<"poulet">>,
      <<"1", " ", "g">>,
      <<"sel">>,
      <<"ajouter", " ", "poulet">>,
      <<"1", " ", "ajouter", " ", "poulet">>,
      <<"-", " ", "2", " ", "g", " ", "mix">>,
      <<"pour", " ", "ajouter">>,
      <<"cuire", ":">> }

Blocks == UNION {[1..n -> BlockLines] : n \in 0..MaxBlockLines}

\* no function is being applied on its own
Idle ==
    /\ text = << >>
    /\ sections = NoSections
    /\ files = << >>
    /\ k = 0
    /\ index = << >>
    /\ nutrition_rows = << >>
    /\ out_json = NotWritten
    /\ out_csv = NotWritten
    /\ out_nutr = NotWritten

InitParse ==
    /\ Idle
    /\ args \in {<<b>> : b \in Blocks}
    /\ ret = << >>
    /\ pc = "parse"

ParseIngredients ==
    /\ pc = "parse"
    /\ ret' = parse_ingredients_lines(args[1])
    /\ pc' = "parsed"
    /\ UNCHANGED <<text, sections, files, k, index, nutrition_rows, out_json, out_csv, out_nutr, args>>

NextParse == ParseIngredients

SpecParse == InitParse /\ [][NextParse]_vars

-----------------------------------------------------------------------------
(* parse_quantity applied to one line and one row *)

\* the quantities of the lines: integers, a decimal, fractions
QtyNumbers ==
    { <<"1">>, <<"2">>, <<"2", "0", "0">>, <<"1", ".", "5">>,
      <<"1", "/", "2">>, <<"1", " ", "/", " ", "2">>, <<"1", "/", "0">> }

\* the foods of the lines
QtyFoods == { <<"poulet">>, <<"oignon">>, <<"huile", " ", "d", "'", "olive">>, <<"sel">> }

\* the spoon units written in full, with and without the preposition
LongUnits ==
    { <<"cuillere", " ", "a", " ", "soupe">>, <<"cuillere", " ", "soupe">>,
      <<"cuillere", " ", "a", " ", "cafe">>, <<"cuillere", " ", "cafe">> }

\* the lines: a food alone, a number and a food, a number, a unit and a food
QtyLines ==
    QtyFoods
    \cup {n \o <<" ">> \o f : n \in QtyNumbers, f \in QtyFoods}
    \cup {n \o <<" ", u, " ">> \o f : n \in QtyNumbers, u \in DOMAIN QTY_UNITS, f \in QtyFoods}
    \cup {n \o <<" ">> \o u \o <<" ">> \o f : n \in QtyNumbers, u \in LongUnits, f \in QtyFoods}

\* rows of an external table: a food counted in units with and without a
\* weight per unit, and one with a weight below zero
ExternalRows ==
    { FoodRow(<<"ail">>, << >>, "unit", 5, 1490, 64, 5, 330),
      FoodRow(<<"jambon">>, << >>, "unit", 0, 1450, 210, 60, 10),
      FoodRow(<<"sel">>, << >>, "unit", -5, 0, 0, 0, 0) }

QtyRows == {NUTRI[i] : i \in 1..Len(NUTRI)} \cup ExternalRows

\* what a call gives back: the exception or the value
Raised == [raises |-> TRUE, grams |-> <<0, 1>>]

Returned(g) == [raises |-> FALSE, grams |-> g]

InitQuantity ==
    /\ Idle
    /\ args \in {<<l, r>> : l \in QtyLines, r \in QtyRows}
    /\ ret = << >>
    /\ pc = "quantity"

ParseQuantity ==
    /\ pc = "quantity"
    /\ ret' = IF parse_quantity_raises(args[1], args[2]) THEN Raised
              ELSE Returned(parse_quantity(args[1], args[2]))
    /\ pc' = "quantity_done"
    /\ UNCHANGED <<text, sections, files, k, index, nutrition_rows, out_json, out_csv, out_nutr, args>>

NextQuantity == ParseQuantity

SpecQuantity == InitQuantity /\ [][NextQuantity]_vars

-----------------------------------------------------------------------------
(* load_nutrition_table and match_food on the table it returns *)

MaxExternalRows == 2

\* rows of an external table: a namesake of a built-in food written with a
\* capital, a food that claims an alias of a built-in food, a food named as
\* an alias of a built-in food, a row without a name, and a second row for a
\* food the table already has
TableRows ==
    { FoodRow(<<"Poulet">>, << <<"volaille">> >>, "g", 0, 2000, 300, 50, 0),
      FoodRow(<<"tofu">>, << <<"riz">> >>, "g", 0, 1200, 120, 70, 20),
      FoodRow(<<"pates">>, << >>, "g", 0, 1300, 50, 10, 250),
      FoodRow(<< >>, << <<"sel">> >>, "g", 0, 0, 0, 0, 0),
      FoodRow(<<"tofu">>, << <<"soja">> >>, "g", 0, 1400, 150, 80, 20) }

RECURSIVE SeqsUpTo(_, _)
SeqsUpTo(S, n) ==
    IF n = 0 THEN {<< >>}
    ELSE SeqsUpTo(S, n - 1) \cup {Append(q, x) : q \in SeqsUpTo(S, n - 1), x \in S}

CsvFiles == {NoCsv, UnreadableCsv} \cup {Csv(rows) : rows \in SeqsUpTo(TableRows, MaxExternalRows)}

MatchLines ==
    { <<"riz", " ", "basmati">>, <<"riz">>, <<"2", "0", "0", " ", "g", " ", "Poulet">>,
      <<"blanc", " ", "de", " ", "poulet">>, <<"volaille">>, <<"Pates">>, <<"tofu">>,
      <<"soja">>, <<"sel">>, <<"curry">>, <<"2", "pdt">>, <<"huile", " ", "d", "'", "olive">> }

InitTable ==
    /\ Idle
    /\ args \in {<<c>> : c \in CsvFiles}
    /\ ret = << >>
    /\ pc = "load"

\* NUTRI = load_nutrition_table()
LoadNutritionTable ==
    /\ pc = "load"
    /\ ret' = load_nutrition_table(args[1])
    /\ pc' = "loaded"
    /\ UNCHANGED <<text, sections, files, k, index, nutrition_rows, out_json, out_csv, out_nutr, args>>

\* match_food(line) with the loaded table as NUTRI
MatchFood ==
    /\ pc = "loaded"
    /\ \E line \in MatchLines :
           /\ args' = <<ret, line>>
           /\ ret' = match_food_in(ret, line)
    /\ pc' = "matched"
    /\ UNCHANGED <<text, sections, files, k, index, nutrition_rows, out_json, out_csv, out_nutr>>

NextTable == LoadNutritionTable \/ MatchFood

SpecTable == InitTable /\ [][NextTable]_vars

-----------------------------------------------------------------------------
(* compute_nutrition on a list of ingredient lines *)

MaxIngredients == 2

MaxPortions == 3

\* ingredient lines: weighed, counted, spooned, without a known food, with a
\* fraction whose denominator is zero
NutritionLines ==
    { <<"1", "5", "0", " ", "g", " ", "poulet">>,
      <<"1", " ", "cs", " ", "huile", " ", "d", "'", "olive">>,
      <<"2", " ", "oignon">>,
      <<"1", "/", "2", " ", "l", " ", "huile">>,
      <<"2", "0", "0", " ", "g", " ", "riz">>,
      <<"5", " ", "g", " ", "pates">>,
      <<"1", " ", "carotte">>,
      <<"sel">>,
      <<"2", "0", "0", " ", "g", " ", "curry">>,
      <<"1", "/", "0", " ", "g", " ", "poulet">> }

NutritionRaised == [raises |-> TRUE]

InitNutrition ==
    /\ Idle
    /\ args \in {<<l, p>> : l \in SeqsUpTo(NutritionLines, MaxIngredients), p \in 0..MaxPortions}
    /\ ret = << >>
    /\ pc = "nutrition"

ComputeNutrition ==
    /\ pc = "nutrition"
    /\ ret' \in IF compute_nutrition_raises(args[1]) THEN {NutritionRaised}
                ELSE compute_nutrition_results(args[1], args[2])
    /\ pc' = "nutrition_done"
    /\ UNCHANGED <<text, sections, files, k, index, nutrition_rows, out_json, out_csv, out_nutr, args>>

NextNutrition == ComputeNutrition

SpecNutrition == InitNutrition /\ [][NextNutrition]_vars

-----------------------------------------------------------------------------
(* normalize_title and title_key on two titles *)

MaxTitleWords == 3

TitleWords == {"Poulet", "poulet", "au", "de", "curry"}

\* the words of a title, one space between them
TitleOf(ws) == JoinSpaces([i \in 1..Len(ws) |-> <<ws[i]>>])

\* titles with capitals, punctuation and doubled spaces, and the empty title
FirstTitles ==
    { <<"Poulet", " ", "au", " ", "curry">>,
      <<"curry", " ", "de", " ", "Poulet">>,
      <<"poulet", "-", "curry", " ", " ", "(", "au", ")">>,
      <<"curry", " ", "curry", " ", "poulet">>,
      << >> }

Titles == {TitleOf(ws) : ws \in SeqsUpTo(TitleWords, MaxTitleWords)}

TitleFigures(a, b) ==
    [normalized_a |-> normalize_title(a), normalized_b |-> normalize_title(b),
     key_a |-> title_key(a), key_b |-> title_key(b)]

InitTitles ==
    /\ Idle
    /\ args \in {<<a, b>> : a \in FirstTitles, b \in Titles}
    /\ ret = << >>
    /\ pc = "titles"

\* normalize_title and title_key of both titles, as lines 839-840 call them
NormalizeTitles ==
    /\ pc = "titles"
    /\ ret' = TitleFigures(args[1], args[2])
    /\ pc' = "titles_done"
    /\ UNCHANGED <<text, sections, files, k, index, nutrition_rows, out_json, out_csv, out_nutr, args>>

NextTitles == NormalizeTitles

SpecTitles == InitTitles /\ [][NextTitles]_vars

-----------------------------------------------------------------------------
(* scripts/find_recipe_duplicates.py: main on recettes_index.json *)

MaxIndexEntries == 3

\* recettes_index.json: absent, holding something that is not a list, or
\* holding the list of the records
NoIndexFile == [exists |-> FALSE, is_list |-> FALSE, data |-> << >>]

NotAList == [exists |-> TRUE, is_list |-> FALSE, data |-> << >>]

IndexFile(data) == [exists |-> TRUE, is_list |-> TRUE, data |-> data]

\* the fields of a record that the script reads, as main of recettes_rescan
\* writes them
IndexItem(title) ==
    [title |-> title, normalized_title |-> normalize_title(title), title_key |-> title_key(title)]

\* titles: two that differ by order and stop words, one that differs by a
\* capital, one apart, two made of stop words only, one without letters
IndexTitles ==
    { <<"Poulet", " ", "au", " ", "curry">>, <<"curry", " ", "de", " ", "poulet">>,
      <<"poulet", " ", "au", " ", "curry">>, <<"riz">>, <<"au">>, <<"de">>, <<"-">> }

IndexFiles ==
    {NoIndexFile, NotAList}
    \cup {IndexFile([i \in 1..Len(ts) |-> IndexItem(ts[i])]) : ts \in SeqsUpTo(IndexTitles, MaxIndexEntries)}

\* by_norm with the records without a normalized title kept in
by_norm_with_empty(data) ==
    [n \in {data[i].normalized_title : i \in 1..Len(data)} |->
        {i \in 1..Len(data) : data[i].normalized_title = n}]

\* by_norm: the positions of the records of each non-empty normalized title
by_norm(data) ==
    [n \in {data[i].normalized_title : i \in 1..Len(data)} \ {<< >>} |->
        {i \in 1..Len(data) : data[i].normalized_title = n}]

\* by_key: the positions of the records of each non-empty title key
by_key(data) ==
    [t \in {data[i].title_key : i \in 1..Len(data)} \ {<< >>} |->
        {i \in 1..Len(data) : data[i].title_key = t}]

\* the groups of a dictionary that pass a test, as a dictionary
Groups(groups, Keep(_)) == [g \in {x \in DOMAIN groups : Keep(groups[x])} |-> groups[g]]

\* exact_dups: the groups of by_norm with more than one record
exact_dups(data) == Groups(by_norm(data), LAMBDA v : Cardinality(v) > 1)

\* near_dups: the groups of by_key with more than one record and more than
\* one normalized title
near_dups(data) ==
    Groups(by_key(data),
           LAMBDA v : /\ Cardinality(v) > 1
                      /\ Cardinality({data[i].normalized_title : i \in v}) > 1)

ExitError == 2

ExitDuplicates == 1

ExitClean == 0

Exited(code, exact, near) == [exit |-> code, exact_dups |-> exact, near_dups |-> near]

\* main of the script: what it printed as groups and its exit code
find_recipe_duplicates(file) ==
    IF ~file.exists \/ ~file.is_list THEN Exited(ExitError, << >>, << >>)
    ELSE Exited(IF DOMAIN exact_dups(file.data) # {} \/ DOMAIN near_dups(file.data) # {}
                THEN ExitDuplicates ELSE ExitClean,
                exact_dups(file.data), near_dups(file.data))

InitDuplicates ==
    /\ Idle
    /\ args \in {<<f>> : f \in IndexFiles}
    /\ ret = << >>
    /\ pc = "duplicates"

FindDuplicates ==
    /\ pc = "duplicates"
    /\ ret' = find_recipe_duplicates(args[1])
    /\ pc' = "duplicates_done"
    /\ UNCHANGED <<text, sections, files, k, index, nutrition_rows, out_json, out_csv, out_nutr, args>>

NextDuplicates == FindDuplicates

SpecDuplicates == InitDuplicates /\ [][NextDuplicates]_vars

-----------------------------------------------------------------------------
(* main: the loop over the documents, then the three output files *)

\* a document: what list_tree gives (id, name) and what extract_recipe_text
\* does with it: raise, or return the text ("" when nothing could be read)
File(id, name, txt, raises) == [id |-> id, name |-> name, text |-> txt, raises |-> raises]

DocTexts == UNION {[1..n -> SampleLines] : n \in 0..MaxDocLines}

TitleA == <<"poulet", " ", "au", " ", "curry">>

TitleB == <<"curry", " ", "de", " ", "poulet">>

\* the documents of the runs of several documents: name, text, raises
SampleDocs ==
    { <<TitleA, << >>, TRUE>>,
      <<TitleA, << >>, FALSE>>,
      <<TitleA, << <<"ingredients">>, <<"1", " ", "poulet">>, <<"preparation">>,
                   <<"1", ".", " ", "ajouter">> >>, FALSE>>,
      <<TitleB, << <<"1", " ", "poulet">>, <<"poulet">>, <<"preparation">>,
                   <<"poulet">> >>, FALSE>>,
      <<TitleB, << <<"poulet">> >>, FALSE>>,
      <<TitleB, << <<"ingredients">>, <<"1", " ", "poulet">> >>, FALSE>>,
      <<TitleB, << <<"ingredients">>, <<"1", " ", "poulet">> >>, TRUE>> }

FilesOf(docs) == [i \in 1..Len(docs) |-> File(i, docs[i][1], docs[i][2], docs[i][3])]

\* the runs of several documents
SampleRuns == {FilesOf(ds) : ds \in UNION {[1..n -> SampleDocs] : n \in 0..MaxDocs}}

\* the runs of one document with any text of at most MaxDocLines lines
SingleRuns == {FilesOf(<<d>>) : d \in {<<TitleA, t, FALSE>> : t \in DocTexts}}

TitleZero == <<"poulet", " ", "pour", " ", "0", " ", "personnes">>

TitleTwo == <<"poulet", " ", "pour", " ", "2", " ", "pers">>

\* one document whose title names its portions, with both blocks and with one
PortionRuns ==
    {FilesOf(<<d>>) : d \in
        {<<n, t, FALSE>> : n \in {TitleZero, TitleTwo},
                           t \in { << <<"ingredients">>, <<"1", " ", "poulet">>, <<"preparation">>,
                                      <<"1", ".", " ", "ajouter">> >>,
                                   << <<"ingredients">>, <<"1", " ", "poulet">> >> }}}

Runs == SingleRuns \cup SampleRuns \cup PortionRuns

\* main before its loop, lines 776-784: the files are listed, the index is empty
InitRuns(runs) ==
    /\ files \in runs
    /\ k = 0
    /\ index = << >>
    /\ nutrition_rows = << >>
    /\ out_json = NotWritten
    /\ out_csv = NotWritten
    /\ out_nutr = NotWritten
    /\ args = << >>
    /\ ret = << >>
    /\ text = << >>
    /\ sections = NoSections
    /\ pc = "loop"

Init == InitRuns(Runs)

\* an exception that is not caught: the run stops where it is
DocumentRaises_aborts ==
    /\ pc = "loop"
    /\ k < Len(files)
    /\ files[k + 1].raises
    /\ pc' = "aborted"
    /\ UNCHANGED <<text, sections, files, k, index, nutrition_rows, out_json, out_csv, out_nutr, args, ret>>

\* a raise between the two appends of lines 856 and 858
DocumentRaises_after_record ==
    /\ pc = "loop"
    /\ k < Len(files)
    /\ files[k + 1].raises
    /\ index' = Append(index, Entry(files[k + 1]))
    /\ k' = k + 1
    /\ UNCHANGED <<text, sections, files, nutrition_rows, out_json, out_csv, out_nutr, pc, args, ret>>

\* the loop body when anything in the try block raises: caught, logged, next
DocumentRaises ==
    /\ pc = "loop"
    /\ k < Len(files)
    /\ files[k + 1].raises
    /\ k' = k + 1
    /\ UNCHANGED <<text, sections, files, index, nutrition_rows, out_json, out_csv, out_nutr, pc, args, ret>>

\* an empty text handed to split_sections like any other text
DocumentEmpty_indexed ==
    /\ pc = "loop"
    /\ k < Len(files)
    /\ ~files[k + 1].raises
    /\ files[k + 1].text = << >>
    /\ index' = Append(index, Entry(files[k + 1]))
    /\ nutrition_rows' = Append(nutrition_rows,
                                NutritionRow(files[k + 1], Entry(files[k + 1])))
    /\ k' = k + 1
    /\ UNCHANGED <<text, sections, files, out_json, out_csv, out_nutr, pc, args, ret>>

\* the loop body when extract_recipe_text returns "": continue
DocumentEmpty ==
    /\ pc = "loop"
    /\ k < Len(files)
    /\ ~files[k + 1].raises
    /\ files[k + 1].text = << >>
    /\ k' = k + 1
    /\ UNCHANGED <<text, sections, files, index, nutrition_rows, out_json, out_csv, out_nutr, pc, args, ret>>

\* the loop body for a document with text: one record, one summary row
DocumentIndexed ==
    /\ pc = "loop"
    /\ k < Len(files)
    /\ ~files[k + 1].raises
    /\ files[k + 1].text # << >>
    /\ index' = Append(index, Entry(files[k + 1]))
    /\ nutrition_rows' = Append(nutrition_rows,
                                NutritionRow(files[k + 1], Entry(files[k + 1])))
    /\ k' = k + 1
    /\ UNCHANGED <<text, sections, files, out_json, out_csv, out_nutr, pc, args, ret>>

\* a row of recipes_list.csv
ListRow(e) == <<e.title, e.file_id, Len(e.ingredients), Len(e.steps)>>

\* after the loop: the three files are written
SaveOutputs ==
    /\ pc = "loop"
    /\ k = Len(files)
    /\ out_json' = Written(index)
    /\ out_csv' = Written([i \in 1..Len(index) |-> ListRow(index[i])])
    /\ out_nutr' = Written(nutrition_rows)
    /\ pc' = "done"
    /\ UNCHANGED <<text, sections, files, k, index, nutrition_rows, args, ret>>

Next ==
    \/ DocumentRaises
    \/ DocumentEmpty
    \/ DocumentIndexed
    \/ SaveOutputs

Spec == Init /\ [][Next]_vars

\* what every step of main does to the loop counter and to the position: the
\* for loop of line 786 takes the next document, and line 874 follows the loop
LoopAdvances ==
    /\ pc = "loop"
    /\ k' = IF k < Len(files) THEN k + 1 ELSE k
    /\ pc' = IF k < Len(files) THEN "loop" ELSE "done"

\* main is one sequential run: it goes on until it has written its files
FairSpec == Spec /\ WF_<<k, pc>>(LoopAdvances)

-----------------------------------------------------------------------------
(* with_retries around one wrapped function *)

\* range(5): the guarded attempts
Attempts == 5

\* the statuses after which an HttpError is tried again
RETRYABLE == {403, 429, 500, 502, 503, 504}

\* an HttpError without a response: status is None
NoStatus == 0

HttpStatuses == RETRYABLE \cup {400, 404, NoStatus}

\* what one call of the wrapped function does: return, raise an HttpError,
\* raise another exception
Returns == [kind |-> "return", status |-> NoStatus]

HttpError(status) == [kind |-> "HttpError", status |-> status]

OtherException == [kind |-> "Exception", status |-> NoStatus]

Outcomes == {Returns, OtherException} \cup {HttpError(st) : st \in HttpStatuses}

\* the locals of one with_retries call: the loop variable and the calls made
Retrying(attempt, calls) == [attempt |-> attempt, calls |-> calls]

InitRetries ==
    /\ Idle
    /\ args = << >>
    /\ ret = Retrying(0, << >>)
    /\ pc = "retries"

\* one guarded attempt in which every HttpError is tried again
GuardedAttempt_retries_all ==
    /\ pc = "retries"
    /\ ret.attempt < Attempts
    /\ \E o \in Outcomes :
          /\ ret' = Retrying(IF o.kind = "return" THEN ret.attempt ELSE ret.attempt + 1,
                             Append(ret.calls, o))
          /\ pc' = IF o.kind = "return" THEN "returned" ELSE "retries"
    /\ UNCHANGED <<text, sections, files, k, index, nutrition_rows, out_json, out_csv, out_nutr, args>>

\* one round of the for loop: the call inside try, then return, continue
\* after the sleep, or raise
GuardedAttempt ==
    /\ pc = "retries"
    /\ ret.attempt < Attempts
    /\ \E o \in Outcomes :
          /\ ret' = Retrying(IF \/ o.kind = "Exception"
                                \/ (o.kind = "HttpError" /\ o.status \in RETRYABLE)
                             THEN ret.attempt + 1 ELSE ret.attempt,
                             Append(ret.calls, o))
          /\ pc' = IF o.kind = "return" THEN "returned"
                    ELSE IF o.kind = "HttpError" /\ o.status \notin RETRYABLE THEN "raised"
                    ELSE "retries"
    /\ UNCHANGED <<text, sections, files, k, index, nutrition_rows, out_json, out_csv, out_nutr, args>>

\* the call after the loop, outside any try
FinalAttempt ==
    /\ pc = "retries"
    /\ ret.attempt = Attempts
    /\ \E o \in Outcomes :
          /\ ret' = Retrying(ret.attempt, Append(ret.calls, o))
          /\ pc' = IF o.kind = "return" THEN "returned" ELSE "raised"
    /\ UNCHANGED <<text, sections, files, k, index, nutrition_rows, out_json, out_csv, out_nutr, args>>

NextRetries == GuardedAttempt \/ FinalAttempt

SpecRetries == InitRetries /\ [][NextRetries]_vars

-----------------------------------------------------------------------------
(* compute_folder_size over a folder graph *)

\* the folder ids of the graphs; folder 1 is the folder that is asked for
MaxFolders == 3

FolderIds == 1..MaxFolders

\* what iter_children yields: sub-folders, shortcuts, files
Folder(id) ==
    [mime |-> "folder", id |-> id, target_is_folder |-> FALSE, has_size |-> FALSE, size |-> 0]

ShortcutTo(id, target_is_folder) ==
    [mime |-> "shortcut", id |-> id, target_is_folder |-> target_is_folder,
     has_size |-> FALSE, size |-> 0]

\* a file; has_size is false when it has neither quotaBytesUsed nor size
FileOf(has_size, size) ==
    [mime |-> "file", id |-> 0, target_is_folder |-> FALSE, has_size |-> has_size, size |-> size]

\* the sub-folders and folder shortcuts a folder may hold: a sub-folder has a
\* higher id than its parent, a shortcut leads to any folder
LinkItems(j) ==
    {Folder(f) : f \in (j + 1)..MaxFolders} \cup {ShortcutTo(f, TRUE) : f \in FolderIds}

\* no such child, one, or for folder 1 a sub-folder and one more
LinkLists(j) ==
    {<< >>} \cup {<<a>> : a \in LinkItems(j)}
            \cup (IF j = 1
                  THEN {<<Folder(f), b>> : f \in (j + 1)..MaxFolders, b \in LinkItems(j)}
                  ELSE {})

\* the files and file shortcuts every folder of a graph holds
LeafLists ==
    { << >>,
      <<ShortcutTo(1, FALSE), FileOf(FALSE, 0), FileOf(TRUE, 5), FileOf(TRUE, 2)>> }

\* one list of LinkLists(j) for each folder j of 1..n
RECURSIVE LinksUpTo(_)
LinksUpTo(n) ==
    IF n = 0 THEN {<< >>}
    ELSE {Append(links, l) : links \in LinksUpTo(n - 1), l \in LinkLists(n)}

\* the listing of every folder
FolderGraphs ==
    {[f \in FolderIds |-> links[f] \o leaves] :
        links \in LinksUpTo(MaxFolders), leaves \in LeafLists}

Stats(n_files, n_folders, n_shortcuts, n_skipped) ==
    [files |-> n_files, folders |-> n_folders, shortcuts |-> n_shortcuts,
     skipped_no_size |-> n_skipped]

\* the locals of compute_folder_size; expanded is the history of the folder
\* ids taken through the body of the while loop
Locals(stack, visited_folders, total, stats, expanded) ==
    [stack |-> stack, visited_folders |-> visited_folders, total |-> total,
     stats |-> stats, expanded |-> expanded]

\* the for loop over the children of one folder, from child i on
RECURSIVE ScanChildren(_, _, _, _, _, _, _, _)
ScanChildren(children, i, follow_shortcuts, stack, visited_folders, total, stats, expanded) ==
    IF i > Len(children)
    THEN Locals(stack, visited_folders, total, stats, expanded)
    ELSE IF children[i].mime = "folder"
    THEN ScanChildren(children, i + 1, follow_shortcuts, Append(stack, children[i].id),
                      visited_folders, total, stats, expanded)
    ELSE IF children[i].mime = "shortcut"
    THEN ScanChildren(children, i + 1, follow_shortcuts,
                      IF follow_shortcuts /\ children[i].target_is_folder
                      THEN Append(stack, children[i].id) ELSE stack,
                      visited_folders, total,
                      Stats(stats.files, stats.folders, stats.shortcuts + 1,
                            stats.skipped_no_size),
                      expanded)
    ELSE ScanChildren(children, i + 1, follow_shortcuts, stack, visited_folders,
                      IF children[i].has_size THEN total + children[i].size ELSE total,
                      Stats(stats.files + 1, stats.folders, stats.shortcuts,
                            IF children[i].has_size THEN stats.skipped_no_size
                            ELSE stats.skipped_no_size + 1),
                      expanded)

\* compute_folder_size before its loop
InitFolderSize ==
    /\ Idle
    /\ args \in {[children |-> g, folder_id |-> 1, follow_shortcuts |-> b] :
                    g \in FolderGraphs, b \in BOOLEAN}
    /\ ret = Locals(<<args.folder_id>>, {}, 0, Stats(0, 0, 0, 0), << >>)
    /\ pc = "folder_size"

\* the popped folder is expanded whether it was visited or not
ExpandFolder_revisits ==
    /\ pc = "folder_size"
    /\ ret.stack # << >>
    /\ Len(ret.expanded) <= MaxFolders
    /\ ret' = ScanChildren(args.children[ret.stack[Len(ret.stack)]], 1, args.follow_shortcuts,
                           SubSeq(ret.stack, 1, Len(ret.stack) - 1),
                           ret.visited_folders \cup {ret.stack[Len(ret.stack)]},
                           ret.total,
                           Stats(ret.stats.files, ret.stats.folders + 1, ret.stats.shortcuts,
                                 ret.stats.skipped_no_size),
                           Append(ret.expanded, ret.stack[Len(ret.stack)]))
    /\ UNCHANGED <<text, sections, files, k, index, nutrition_rows, out_json, out_csv, out_nutr, args, pc>>

\* one round of the while loop for a folder that was not visited: it is
\* marked, counted, and its children are gone through
ExpandFolder ==
    /\ pc = "folder_size"
    /\ ret.stack # << >>
    /\ ret.stack[Len(ret.stack)] \notin ret.visited_folders
    /\ ret' = ScanChildren(args.children[ret.stack[Len(ret.stack)]], 1, args.follow_shortcuts,
                           SubSeq(ret.stack, 1, Len(ret.stack) - 1),
                           ret.visited_folders \cup {ret.stack[Len(ret.stack)]},
                           ret.total,
                           Stats(ret.stats.files, ret.stats.folders + 1, ret.stats.shortcuts,
                                 ret.stats.skipped_no_size),
                           Append(ret.expanded, ret.stack[Len(ret.stack)]))
    /\ UNCHANGED <<text, sections, files, k, index, nutrition_rows, out_json, out_csv, out_nutr, args, pc>>

\* the same round when the listing of the folder fails: with_retries raises
\* out of iter_children and out of compute_folder_size
ListingRaises ==
    /\ pc = "folder_size"
    /\ ret.stack # << >>
    /\ ret.stack[Len(ret.stack)] \notin ret.visited_folders
    /\ ret' = Locals(SubSeq(ret.stack, 1, Len(ret.stack) - 1),
                     ret.visited_folders \cup {ret.stack[Len(ret.stack)]},
                     ret.total,
                     Stats(ret.stats.files, ret.stats.folders + 1, ret.stats.shortcuts,
                           ret.stats.skipped_no_size),
                     Append(ret.expanded, ret.stack[Len(ret.stack)]))
    /\ pc' = "folder_size_raised"
    /\ UNCHANGED <<text, sections, files, k, index, nutrition_rows, out_json, out_csv, out_nutr, args>>

\* one round of the while loop for a folder that was visited: continue
SkipVisited ==
    /\ pc = "folder_size"
    /\ ret.stack # << >>
    /\ ret.stack[Len(ret.stack)] \in ret.visited_folders
    /\ ret' = Locals(SubSeq(ret.stack, 1, Len(ret.stack) - 1), ret.visited_folders,
                     ret.total, ret.stats, ret.expanded)
    /\ UNCHANGED <<text, sections, files, k, index, nutrition_rows, out_json, out_csv, out_nutr, args, pc>>

\* the stack is empty: return total, stats
ReturnFolderSize ==
    /\ pc = "folder_size"
    /\ ret.stack = << >>
    /\ pc' = "folder_size_done"
    /\ UNCHANGED <<text, sections, files, k, index, nutrition_rows, out_json, out_csv, out_nutr, args, ret>>

NextFolderSize ==
    \/ ExpandFolder
    \/ ListingRaises
    \/ SkipVisited
    \/ ReturnFolderSize

SpecFolderSize == InitFolderSize /\ [][NextFolderSize]_vars

\* compute_folder_size is one sequential call: its loop keeps running
FairFolderSize == SpecFolderSize /\ WF_vars(NextFolderSize)

-----------------------------------------------------------------------------
(* What the claims about split_sections speak of *)

Done == pc = "split_done"

\* the lines split_sections works on
Lines == StrippedLines(text)

IsIngrHeaderLine(i) == \E p \in 1..Len(Lines[i]) : Lines[i][p] \in INGR_HEADERS

IsStepHeaderLine(i) == \E p \in 1..Len(Lines[i]) : Lines[i][p] \in STEP_HEADERS

IsBlankLine(i) == Lines[i] = << >>

\* i is the first ingredients-header line
FirstIngrAt(i) ==
    /\ i \in 1..Len(Lines)
    /\ IsIngrHeaderLine(i)
    /\ \A h \in 1..(i - 1) : ~IsIngrHeaderLine(h)

\* j is the first steps-header line after line i (after the start when i = 0)
FirstStepAfter(i, j) ==
    /\ j \in (i + 1)..Len(Lines)
    /\ IsStepHeaderLine(j)
    /\ \A h \in (i + 1)..(j - 1) : ~IsStepHeaderLine(h)

NoIngrHeader == \A i \in 1..Len(Lines) : ~IsIngrHeaderLine(i)

NoStepHeaderAfter(i) == \A h \in (i + 1)..Len(Lines) : ~IsStepHeaderLine(h)

Blanks(m) == [i \in 1..m |-> << >>]

\* the region Lines[a..b] is the block with blank lines added at its two ends only
RegionIsBlock(a, b, block) ==
    /\ block = << >> \/ (Head(block) # << >> /\ block[Len(block)] # << >>)
    /\ \E x, y \in 0..Len(Lines) : SubSeq(Lines, a, b) = Blanks(x) \o block \o Blanks(y)

HasNote(nt) == \E i \in 1..Len(sections.notes) : sections.notes[i] = nt

\* C1: split_sections returns a result for every text; its status is CONFIDENT
\* exactly when both returned blocks are non-empty and INCOMPLETE otherwise,
\* never PARTIAL.
C1_StatusPolicy ==
    Done =>
        /\ sections.status \in {"CONFIDENT", "INCOMPLETE"}
        /\ sections.status = "CONFIDENT"
               <=> (sections.ingredients # << >> /\ sections.steps # << >>)

C1_Witness ==
    /\ Done
    /\ sections.status = "CONFIDENT"
    /\ NoIngrHeader
    /\ NoStepHeaderAfter(0)

\* the case of C2: first ingredients header at i, first steps header after it at
\* j, a non-blank line between them and a non-blank line after j
C2_Case(i, j) ==
    /\ FirstIngrAt(i)
    /\ FirstStepAfter(i, j)
    /\ \E m \in (i + 1)..(j - 1) : ~IsBlankLine(m)
    /\ \E m \in (j + 1)..Len(Lines) : ~IsBlankLine(m)

\* C2 as stated: in that case the result is CONFIDENT and the ingredients block
\* is exactly the lines strictly between the two headers, the steps block
\* exactly the lines after the steps header.
C2_ExactLines ==
    Done =>
        \A i, j \in 1..Len(Lines) :
            C2_Case(i, j) =>
                /\ sections.status = "CONFIDENT"
                /\ sections.ingredients = SubSeq(Lines, i + 1, j - 1)
                /\ sections.steps = SubSeq(Lines, j + 1, Len(Lines))

\* C2 amended: in that case the result is CONFIDENT, both blocks are non-empty,
\* and the lines from the ingredients header to the end are, in order and each
\* exactly once: the header line, the ingredients block, the steps header line,
\* the steps block - up to blank lines at the two ends of each block, which the
\* strip of the joined block drops.
C2_HeadersSplit ==
    Done =>
        \A i, j \in 1..Len(Lines) :
            C2_Case(i, j) =>
                /\ sections.status = "CONFIDENT"
                /\ sections.ingredients # << >>
                /\ sections.steps # << >>
                /\ RegionIsBlock(i + 1, j - 1, sections.ingredients)
                /\ RegionIsBlock(j + 1, Len(Lines), sections.steps)

C2_Witness ==
    /\ Done
    /\ \E i, j \in 1..Len(Lines) :
           /\ C2_Case(i, j)
           /\ IsBlankLine(i + 1)
           /\ sections.status = "CONFIDENT"

\* C3: when ingredients and steps headers both occur and no steps header comes
\* after the first ingredients header (every steps header is at or before it),
\* the result is INCOMPLETE with both blocks empty.
C3_InvertedIsUnparsable ==
    Done =>
        \A i \in 1..Len(Lines) :
            ( /\ FirstIngrAt(i)
              /\ \E j \in 1..i : IsStepHeaderLine(j)
              /\ NoStepHeaderAfter(i) )
            => /\ sections.status = "INCOMPLETE"
               /\ sections.ingredients = << >>
               /\ sections.steps = << >>

\* a line beginning with "1."
BeginsWithOneDot(i) == Len(Lines[i]) >= 2 /\ Lines[i][1] = "1" /\ Lines[i][2] = "."

\* C4: with no header in the text, the text is split at the first line that
\* begins with "1.": the lines before it are the ingredients block, that line
\* and the lines after it the steps block, which is non-empty, and the notes
\* contain fallback_no_headers.
C4_OneDotSplits ==
    Done =>
        \A m \in 1..Len(Lines) :
            ( /\ NoIngrHeader
              /\ NoStepHeaderAfter(0)
              /\ BeginsWithOneDot(m)
              /\ \A h \in 1..(m - 1) : ~BeginsWithOneDot(h) )
            => /\ sections.steps # << >>
               /\ RegionIsBlock(1, m - 1, sections.ingredients)
               /\ RegionIsBlock(m, Len(Lines), sections.steps)
               /\ HasNote("fallback_no_headers")

-----------------------------------------------------------------------------
(* What the claims about main speak of *)

\* extract_recipe_text returned a text that is not empty
HasText(f) == ~f.raises /\ f.text # << >>

\* extract_recipe_text returned ""
EmptyText(f) == ~f.raises /\ f.text = << >>

\* the positions of the records of index that carry the file id
RecordsOf(id) == {j \in 1..Len(index) : index[j].file_id = id}

FileIds(rows) == [j \in 1..Len(rows) |-> rows[j].file_id]

IdsOf(fs) == [i \in 1..Len(fs) |-> fs[i].id]

\* C6 as stated: every document processed so far whose text is empty has a
\* record in the index, and that record is INCOMPLETE.
C6_EmptyTextIsIncomplete ==
    \A i \in 1..k :
        EmptyText(files[i]) =>
            \E j \in RecordsOf(files[i].id) : index[j].parse_status = "INCOMPLETE"

\* C6, amended: a document whose text is empty is skipped without an
\* exception: the loop moves on to the next document, and the index holds no
\* record with its file id, whatever the status.
C6_EmptyTextSkipped ==
    \A i \in 1..k : EmptyText(files[i]) => RecordsOf(files[i].id) = {}

\* an empty document has been passed and a later document has its record
C6_Witness ==
    \E i \in 1..k :
        /\ EmptyText(files[i])
        /\ \E h \in (i + 1)..k : RecordsOf(files[h].id) # {}

\* C7: whatever documents raise, the run reaches the writing of its outputs,
\* and what it writes then is the records of all the documents that gave a
\* text, in the order of the documents.
C7_NeverAborts ==
    /\ <>(pc = "done")
    /\ [](pc = "done" =>
            /\ out_json.written /\ out_csv.written /\ out_nutr.written
            /\ FileIds(out_json.rows) = IdsOf(SelectSeq(files, HasText))
            /\ Len(out_nutr.rows) = Len(out_json.rows))

\* a run is over in which a document raised between two documents whose
\* records are both written
C7_Witness ==
    /\ pc = "done"
    /\ \E h, i, j \in 1..Len(files) :
        /\ h < i /\ i < j
        /\ files[i].raises
        /\ \E a, b \in 1..Len(out_json.rows) :
            /\ a < b
            /\ out_json.rows[a].file_id = files[h].id
            /\ out_json.rows[b].file_id = files[j].id

\* only one of the two blocks was found
OneBlock(e) == (e.ingredients_raw = << >>) # (e.steps_raw = << >>)

\* invalid ingredient lines next to ingredient lines that are kept
InvalidAlongsideValid(e) == e.ingredients_invalid # << >> /\ e.ingredients # << >>

\* C8 as stated: a record is PARTIAL whenever only one of the two blocks was
\* found, or invalid ingredient lines are present alongside valid ones.
C8_PartialWhenever ==
    \A j \in 1..Len(index) :
        (OneBlock(index[j]) \/ InvalidAlongsideValid(index[j]))
            => index[j].parse_status = "PARTIAL"

\* C8, amended: a record is PARTIAL exactly when invalid ingredient lines are
\* present and both the ingredients list and the steps list are non-empty; a
\* record with only one of the two blocks is INCOMPLETE.
C8_PartialPolicy ==
    \A j \in 1..Len(index) :
        /\ index[j].parse_status = "PARTIAL"
            <=> /\ InvalidAlongsideValid(index[j])
                /\ index[j].steps # << >>
        /\ OneBlock(index[j]) => index[j].parse_status = "INCOMPLETE"

\* the index holds a PARTIAL record and a record with one block only
C8_Witness ==
    /\ \E j \in 1..Len(index) : index[j].parse_status = "PARTIAL"
    /\ \E j \in 1..Len(index) :
        /\ OneBlock(index[j])
        /\ index[j].parse_status = "INCOMPLETE"

\* C9: every record that is not CONFIDENT has total_kcal, kcal_per_portion,
\* proteins_g, lipids_g and carbs_g equal to 0, and so has its summary row.
C9_NutritionOnlyWhenConfident ==
    /\ Len(nutrition_rows) = Len(index)
    /\ \A j \in 1..Len(index) :
        index[j].parse_status # "CONFIDENT" =>
            /\ index[j].total_kcal = 0
            /\ index[j].kcal_per_portion = 0
            /\ index[j].proteins_g = 0
            /\ index[j].lipids_g = 0
            /\ index[j].carbs_g = 0
            /\ \A c \in 3..7 : nutrition_rows[j][c] = 0

\* a PARTIAL record whose ingredient lines would give figures above zero, next
\* to a CONFIDENT record that has such figures
C9_Witness ==
    /\ \E j \in 1..Len(index) :
        /\ index[j].parse_status = "PARTIAL"
        /\ compute_nutrition(index[j].ingredients, DefaultPortions).total_kcal > 0
    /\ \E j \in 1..Len(index) :
        /\ index[j].parse_status = "CONFIDENT"
        /\ index[j].total_kcal > 0

\* no line of the text holds a header word or starts with a step marker
NoStructure(t) ==
    \A i \in 1..Len(t) :
        /\ ~SearchAny(INGR_HEADERS, Strip(t[i]))
        /\ ~SearchAny(STEP_HEADERS, Strip(t[i]))
        /\ ~STEP_MARK_RE(Strip(t[i]))

\* C10: every document processed so far that gave a text has one record; when
\* the text has no header and no step marker that record is INCOMPLETE; and
\* every INCOMPLETE record has a non-empty parse_notes.
C10_AbsenceIsReported ==
    /\ \A i \in 1..k :
        HasText(files[i]) =>
            /\ Cardinality(RecordsOf(files[i].id)) = 1
            /\ NoStructure(files[i].text) =>
                \A j \in RecordsOf(files[i].id) : index[j].parse_status = "INCOMPLETE"
    /\ \A j \in 1..Len(index) :
        index[j].parse_status = "INCOMPLETE" => index[j].parse_notes # << >>

\* a text without structure has its INCOMPLETE record, and so has a text of
\* which one block was found
C10_Witness ==
    /\ \E i \in 1..k :
        /\ HasText(files[i])
        /\ NoStructure(files[i].text)
        /\ \E j \in RecordsOf(files[i].id) : index[j].parse_status = "INCOMPLETE"
    /\ \E j \in 1..Len(index) :
        /\ index[j].parse_status = "INCOMPLETE"
        /\ OneBlock(index[j])
        /\ index[j].parse_notes # << >>

\* the fields of the persisted shape of a record
PersistedFields ==
    {"title", "normalized_title", "title_key", "ingredients_raw", "steps_raw",
     "ingredients", "steps", "ingredients_invalid", "parse_status", "parse_notes",
     "total_kcal", "kcal_per_portion", "proteins_g", "lipids_g", "carbs_g",
     "proteins_g_per_portion", "lipids_g_per_portion", "carbs_g_per_portion",
     "portions"}

\* C11: every record of the index, whatever its parse_status, has all the
\* fields of the persisted shape.
C11_AllFieldsPresent ==
    \A j \in 1..Len(index) : PersistedFields \subseteq DOMAIN index[j]

-----------------------------------------------------------------------------
(* What the claims about parse_ingredients_lines speak of *)

Parsed == pc = "parsed"

\* the lines of the block with their bullets and outer spaces removed
RawLines(block) == [i \in 1..Len(block) |-> StripBullet(block[i])]

\* a line the loop looks at: not empty, not a sub-label, not a skipped line
Candidate(l) ==
    /\ l # << >>
    /\ ~(l[Len(l)] = ":" /\ ~HasDigit(l))
    /\ ~SKIP_INGR_LINE_RE(l)
    /\ ~SKIP_INGR_SIMPLE_RE(l)

InSeq(x, seq) == \E i \in 1..Len(seq) : seq[i] = x

NoVerbIn(seq) == \A i \in 1..Len(seq) : ~VERB_RE(seq[i])

\* the candidate line l with a verb is in the invalid list, on its own or
\* behind the quantity line that comes before it
ReportedInvalid(l, raw) ==
    \/ InSeq(normalize_qty_line(l), ret.invalid)
    \/ \E i \in 1..Len(raw) :
        InSeq(normalize_qty_line(raw[i] \o <<" ">> \o l), ret.invalid)

VerbCandidatesReported(raw) ==
    \A i \in 1..Len(raw) :
        (Candidate(raw[i]) /\ VERB_RE(raw[i])) => ReportedInvalid(raw[i], raw)

\* C12 as stated: no line of the valid list contains a verb, and every
\* candidate line that contains one is in the invalid list.
C12_VerbsAlwaysRejected ==
    Parsed =>
        /\ NoVerbIn(ret.valid)
        /\ VerbCandidatesReported(RawLines(args[1]))

\* C12, amended: either no line of the valid list contains a verb and every
\* candidate line that contains one is in the invalid list, or no line was
\* accepted and the result is the fallback: the raw lines of the block as the
\* valid list, verbs included, and an empty invalid list.
C12_VerbsRejectedUnlessFallback ==
    Parsed =>
        \/ /\ NoVerbIn(ret.valid)
           /\ VerbCandidatesReported(RawLines(args[1]))
        \/ /\ ret.invalid = << >>
           /\ ret.valid = Take(RawLines(args[1]), RawFallbackCap)

\* a block with an accepted line and a line with a verb, which is reported
C12_Witness ==
    /\ Parsed
    /\ \E i \in 1..Len(ret.valid) : ING_LINE_RE(ret.valid[i])
    /\ \E i \in 1..Len(ret.invalid) : VERB_RE(ret.invalid[i])
    /\ \E i \in 1..Len(args[1]) : VERB_RE(args[1][i]) /\ Candidate(RawLines(args[1])[i])

-----------------------------------------------------------------------------
(* What the claims about parse_quantity speak of *)

QuantityDone == pc = "quantity_done"

\* C13: parse_quantity never fails and the grams it returns are >= 0, for
\* every line, fractions n/d included, and every row.
C13_GramsAlwaysNonNegative ==
    QuantityDone => ~ret.raises /\ ret.grams[1] >= 0

\* the units the conversion policy names, as written in a line
PolicyUnits ==
    {"g", "ml", "cl", "l", "cs", "cc", "gousse", "tranche", "piece", "cup", "verre",
     "sachet"}

\* the value of a number of QtyNumbers whose denominator is not zero
NumberValue(n) == ToFloat(n, 1, Len(n) + 1)

\* grams_per_unit of the row, d when the column is empty
GramsPerUnitOr(row, d) == IF row.grams_per_unit # 0 THEN row.grams_per_unit ELSE d

\* the grams the conversion policy gives to the value v with the unit u
PolicyGrams(v, u, row) ==
    CASE u \in {"g", "ml"} -> v
      [] u = "cl" -> RatMul(v, <<10, 1>>)
      [] u = "l" -> RatMul(v, <<1000, 1>>)
      [] u = "cs" -> RatMul(v, <<IF OilLike(row) THEN 15 ELSE 12, 1>>)
      [] u = "cc" -> RatMul(v, <<5, 1>>)
      [] u = "tranche" -> RatMul(v, <<GramsPerUnitOr(row, 30), 1>>)
      [] u \in {"gousse", "piece"} -> RatMul(v, <<GramsPerUnitOr(row, 5), 1>>)
      [] u \in {"cup", "verre"} -> RatMul(v, <<IF OilLike(row) THEN 220 ELSE 240, 1>>)
      [] OTHER -> RatMul(v, <<100, 1>>)

\* the grams the policy gives to a line without a (number, unit) pair
PolicyDefault(row) == <<IF row.unit = "unit" THEN GramsPerUnitOr(row, 100) ELSE 100, 1>>

\* the line is the number n, the unit u and the food f
IsQtyLine(n, u, f) == args[1] = n \o <<" ", u, " ">> \o f

\* the policy on the units in us, and on the lines without a pair
PolicyHoldsOn(us) ==
    QuantityDone =>
        /\ \A n \in QtyNumbers \ {<<"1", "/", "0">>}, u \in us, f \in QtyFoods :
            IsQtyLine(n, u, f) => ret = Returned(PolicyGrams(NumberValue(n), u, args[2]))
        /\ (args[1] \in QtyFoods \/ \E n \in QtyNumbers, f \in QtyFoods : args[1] = n \o <<" ">> \o f)
            => ret = Returned(PolicyDefault(args[2]))

\* C14: parse_quantity follows the conversion policy on the first (number,
\* unit) pair of the line, for each unit the policy names (g, ml, cl, l, cs,
\* cc, gousse, tranche, piece, cup, verre, others x 100), and returns the
\* default weight of the row when the line has no pair.
C14_ConversionPolicy == PolicyHoldsOn(PolicyUnits)

\* the line is the number n, the unit in full u and the food f
IsLongLine(n, u, f) == args[1] = n \o <<" ">> \o u \o <<" ">> \o f

\* C15: a quantity in cuillere a soupe resolves as the same quantity in cs,
\* and one in cuillere a cafe as the same quantity in cc.
C15_LongFormsAsAbbreviations ==
    QuantityDone =>
        \A n \in QtyNumbers \ {<<"1", "/", "0">>}, f \in QtyFoods :
            /\ IsLongLine(n, <<"cuillere", " ", "a", " ", "soupe">>, f)
                => ret = Returned(parse_quantity(n \o <<" ", "cs", " ">> \o f, args[2]))
            /\ IsLongLine(n, <<"cuillere", " ", "a", " ", "cafe">>, f)
                => ret = Returned(parse_quantity(n \o <<" ", "cc", " ">> \o f, args[2]))

-----------------------------------------------------------------------------
(* Claims about match_food and load_nutrition_table *)

Matched == pc = "matched"

Loaded == pc = "loaded"

\* a name of the row, folded, is a whole word of the normalized line
NameOccurs(row, line) ==
    RowMatches(row, <<" ">> \o CollapseNonAlnum(deaccent_lower(line)) \o <<" ">>)

\* the canonical name of the row, folded, is a whole word of the normalized line
FoodOccurs(row, line) ==
    FindWholeWord(deaccent_lower(row.food),
                  <<" ">> \o CollapseNonAlnum(deaccent_lower(line)) \o <<" ">>)

\* C16: match_food returns the first row of the table, in table order, one
\* of whose names is a whole word of the line, and none when no row has one.
C16_FirstRowWins ==
    Matched =>
        /\ ret \in 0..Len(args[1])
        /\ ret # NoIndex => NameOccurs(args[1][ret], args[2])
        /\ \A j \in 1..Len(args[1]) :
               NameOccurs(args[1][j], args[2]) => ret # NoIndex /\ ret <= j

\* a later row has its canonical name in the line, the returned row only an alias
C16_Witness ==
    /\ Matched
    /\ ret # NoIndex
    /\ ~FoodOccurs(args[1][ret], args[2])
    /\ \E j \in (ret + 1)..Len(args[1]) : FoodOccurs(args[1][j], args[2])

\* the folded names of a row
NameSet(row) == {RowNames(row)[i] : i \in 1..Len(RowNames(row))} \ {<< >>}

\* C17: in the merged table no name or alias belongs to two different rows.
C17_OneRowPerAlias ==
    Loaded =>
        \A i, j \in 1..Len(ret) : i # j => NameSet(ret[i]) \cap NameSet(ret[j]) = {}

\* a built-in row has an external namesake
HasNamesake(b, rows) ==
    \E i \in 1..Len(rows) :
        rows[i].food # << >> /\ deaccent_lower(rows[i].food) = deaccent_lower(b.food)

NoNamesake(b) == ~HasNamesake(b, args[1].rows)

\* C18: with a readable external table the merged table is the external rows
\* in their order followed by the built-in rows without an external namesake
\* in built-in order; without one it is the built-in table.
C18_OverrideByName ==
    Loaded =>
        IF args[1].exists /\ args[1].readable
        THEN /\ Len(ret) >= Len(args[1].rows)
             /\ SubSeq(ret, 1, Len(args[1].rows)) = args[1].rows
             /\ SubSeq(ret, Len(args[1].rows) + 1, Len(ret)) = SelectSeq(builtin, NoNamesake)
        ELSE ret = builtin

\* a built-in row gave way to a namesake written with other letters
C18_Witness ==
    /\ Loaded
    /\ args[1].exists /\ args[1].readable
    /\ \E i \in 1..Len(builtin) :
           /\ HasNamesake(builtin[i], args[1].rows)
           /\ \A r \in 1..Len(args[1].rows) : args[1].rows[r].food # builtin[i].food
    /\ Len(ret) > Len(args[1].rows)

-----------------------------------------------------------------------------
(* Claims about compute_nutrition *)

NutritionDone == pc = "nutrition_done" /\ ret # NutritionRaised

\* what line i adds to a total: density x grams / 100, nothing without a row
Contribution(line, dens) ==
    IF match_food(line) = NoIndex THEN <<0, 1>>
    ELSE RatMul(<<NUTRI[match_food(line)][dens], 1000>>,
                parse_quantity(line, NUTRI[match_food(line)]))

\* the sum of the contributions of the first n lines
RECURSIVE SumOf(_, _, _)
SumOf(lines, n, dens) ==
    IF n = 0 THEN <<0, 1>>
    ELSE RatAdd(SumOf(lines, n - 1, dens), Contribution(lines[n], dens))

Sum(dens) == SumOf(args[1], Len(args[1]), dens)

PortionCount == IF args[2] >= 1 THEN args[2] ELSE 1

PerPortion(dens) == RatMul(Sum(dens), <<1, PortionCount>>)

PinnedLines ==
    << <<"1", "5", "0", " ", "g", " ", "poulet">>,
       <<"1", " ", "cs", " ", "huile", " ", "d", "'", "olive">> >>

\* v (in units of 1/scale) is a nearest figure to x
NearestTo(v, x, scale) ==
    2 * (IF v * x[2] >= scale * x[1] THEN v * x[2] - scale * x[1]
         ELSE scale * x[1] - v * x[2]) <= x[2]

\* C19: the totals are the sums of density x grams / 100 over the lines that
\* match a food, the per-portion figures are the unrounded sums divided by
\* the portion count, and only the returned figures are rounded (kcal to an
\* integer, macros to one decimal); 150 g poulet and 1 cs huile d'olive for 3
\* portions give 380 kcal and 127 per portion.
C19_SumsThenRounding ==
    NutritionDone =>
        /\ NearestTo(ret.total_kcal, Sum("kcal_per_100g"), 1)
        /\ NearestTo(ret.proteins_g, Sum("protein_g_per_100g"), 10)
        /\ NearestTo(ret.lipids_g, Sum("fat_g_per_100g"), 10)
        /\ NearestTo(ret.carbs_g, Sum("carb_g_per_100g"), 10)
        /\ NearestTo(ret.kcal_per_portion, PerPortion("kcal_per_100g"), 1)
        /\ NearestTo(ret.proteins_g_per_portion, PerPortion("protein_g_per_100g"), 10)
        /\ NearestTo(ret.lipids_g_per_portion, PerPortion("fat_g_per_100g"), 10)
        /\ NearestTo(ret.carbs_g_per_portion, PerPortion("carb_g_per_100g"), 10)
        /\ args = <<PinnedLines, 3>> => ret.total_kcal = 380 /\ ret.kcal_per_portion = 127

C19_Witness ==
    /\ NutritionDone
    /\ args = <<PinnedLines, 3>>
    /\ ret.total_kcal = 380
    /\ ret.kcal_per_portion = 127

-----------------------------------------------------------------------------
(* Claims about the portions *)

PortionsColumn == 2

\* C20: every portions value reported for a recipe, in the portions field of
\* its record and in the portions column of its summary row, is at least 1.
C20_ReportedPortionsAtLeastOne ==
    /\ \A j \in 1..Len(index) :
           "portions" \in DOMAIN index[j] => index[j].portions >= 1
    /\ \A j \in 1..Len(nutrition_rows) : nutrition_rows[j][PortionsColumn] >= 1

-----------------------------------------------------------------------------
(* Claims about the titles *)

TitlesDone == pc = "titles_done"

\* the folded words of a title: what is left between the other characters
WordsOf(name) == SplitSpaces(CollapseNonAlnum(deaccent_lower(name)))

\* the words of a title that are not stop words
KeptWords(name) == SelectSeq(WordsOf(name), LAMBDA w : w \notin _TITLE_STOP_WORDS)

Count(ws, w) == Cardinality({i \in 1..Len(ws) : ws[i] = w})

SameMultiset(xs, ys) ==
    /\ Len(xs) = Len(ys)
    /\ \A i \in 1..Len(xs) : Count(xs, xs[i]) = Count(ys, xs[i])

\* C21: two titles with the same words apart from stop words and order have
\* the same title_key, and their normalized titles differ whenever their
\* word sequences differ.
C21_KeyIgnoresOrderAndStopWords ==
    TitlesDone =>
        /\ SameMultiset(KeptWords(args[1]), KeptWords(args[2])) => ret.key_a = ret.key_b
        /\ WordsOf(args[1]) # WordsOf(args[2]) => ret.normalized_a # ret.normalized_b

\* Poulet au curry and curry de poulet: one key, two normalized titles
C21_Witness ==
    /\ TitlesDone
    /\ args = << <<"Poulet", " ", "au", " ", "curry">>, <<"curry", " ", "de", " ", "poulet">> >>
    /\ ret.key_a = ret.key_b
    /\ ret.key_a = <<"curry", " ", "poulet">>
    /\ ret.normalized_a # ret.normalized_b

-----------------------------------------------------------------------------
(* Claims about the duplicate finder *)

DuplicatesDone == pc = "duplicates_done"

Readable == args[1].exists /\ args[1].is_list

\* records i and j are listed in one group of the report
ListedTogether(report, i, j) == \E g \in DOMAIN report : i \in report[g] /\ j \in report[g]

NormOf(i) == args[1].data[i].normalized_title

KeyOf(i) == args[1].data[i].title_key

Pairs == {p \in (1..Len(args[1].data)) \X (1..Len(args[1].data)) : p[1] < p[2]}

ExitCodeAsStated ==
    IF ~Readable THEN ret.exit = ExitError
    ELSE ret.exit =
            IF \E p \in Pairs : \/ ListedTogether(ret.exact_dups, p[1], p[2])
                                \/ ListedTogether(ret.near_dups, p[1], p[2])
            THEN ExitDuplicates ELSE ExitClean

-----------------------------------------------------------------------------
(* Claims about the steps fallback of split_sections *)

\* first ingredients header at line i and no steps header after it
HeaderWithoutSteps(i) == FirstIngrAt(i) /\ NoStepHeaderAfter(i)

\* m is the first step-marker line after line i
FirstMarkerAfter(i, m) ==
    /\ m \in (i + 1)..Len(Lines)
    /\ STEP_MARK_RE(Lines[m])
    /\ \A h \in (i + 1)..(m - 1) : ~STEP_MARK_RE(Lines[h])

NoMarkerAfter(i) == \A h \in (i + 1)..Len(Lines) : ~STEP_MARK_RE(Lines[h])

-----------------------------------------------------------------------------
(* Claims about the raw-lines fallback of parse_ingredients_lines *)

\* what the strict loop accepts, and the non-empty raw lines of the block
StrictValid(block) == ParseLoop(SelectNonEmpty(RawLines(block)), 1, << >>, << >>).valid

NonEmptyRaw(block) == SelectNonEmpty(RawLines(block))

\* C24: when the strict loop accepts no line and the block has a non-empty
\* raw line, the valid list is the non-empty raw lines in order, at most the
\* first RawFallbackCap of them, and holds no empty string; when the block
\* has no non-empty line the valid list is empty.
C24_FallbackKeepsNonEmptyLines ==
    Parsed =>
        /\ (StrictValid(args[1]) = << >> /\ NonEmptyRaw(args[1]) # << >>) =>
               /\ ret.valid = Take(NonEmptyRaw(args[1]), RawFallbackCap)
               /\ \A i \in 1..Len(ret.valid) : ret.valid[i] # << >>
        /\ NonEmptyRaw(args[1]) = << >> => ret.valid = << >>

-----------------------------------------------------------------------------
(* Claims about the quantity-only merge *)

\* the fate of each non-empty raw line of the block
FatesOf(block) == ParseFates(NonEmptyRaw(block), 1, << >>)

\* the candidate made of a quantity line and the line after it
Joined(a, b) == normalize_qty_line(a \o <<" ">> \o b)

\* C25: the line after a quantity-only line is merged with it exactly when
\* it has no digit and is not a skip-pattern line (a sub-label ending in ":",
\* a seasoning-only line, a line beginning with pour/for ...); a line that
\* would itself be skipped is never part of a returned candidate, and a
\* merged line is not a candidate of its own.
C25_MergeExactlyWhen ==
    Parsed =>
        /\ Len(FatesOf(args[1])) = Len(NonEmptyRaw(args[1]))
        /\ \A i \in 2..Len(NonEmptyRaw(args[1])) :
               /\ FatesOf(args[1])[i] = "merged"
                     <=> /\ QTY_ONLY_RE(NonEmptyRaw(args[1])[i - 1])
                         /\ ~HasDigit(NonEmptyRaw(args[1])[i])
                         /\ Candidate(NonEmptyRaw(args[1])[i])
               /\ (/\ ~Candidate(NonEmptyRaw(args[1])[i])
                   /\ QTY_ONLY_RE(NonEmptyRaw(args[1])[i - 1])
                   /\ StrictValid(args[1]) # << >>)
                     => /\ ~InSeq(Joined(NonEmptyRaw(args[1])[i - 1],
                                         NonEmptyRaw(args[1])[i]), ret.valid)
                        /\ ~InSeq(Joined(NonEmptyRaw(args[1])[i - 1],
                                         NonEmptyRaw(args[1])[i]), ret.invalid)

-----------------------------------------------------------------------------
(* Claims about the accounting of parse_ingredients_lines *)

\* the strict result is returned: a line was accepted or the block is empty
NoFallback(block) == StrictValid(block) # << >> \/ RawLines(block) = << >>

HowMany(fates, f) == Cardinality({i \in 1..Len(fates) : fates[i] = f})

\* the candidate that starts at line i, with the merged line after it if any
CandidateAt(lines, fates, i) ==
    IF i + 1 <= Len(fates) /\ fates[i + 1] = "merged"
    THEN Joined(lines[i], lines[i + 1])
    ELSE normalize_qty_line(lines[i])

\* the candidates of the lines whose fate is f, in the order of the lines
RECURSIVE CandidatesFrom(_, _, _, _)
CandidatesFrom(lines, fates, f, i) ==
    IF i > Len(lines) THEN << >>
    ELSE (IF fates[i] = f THEN <<CandidateAt(lines, fates, i)>> ELSE << >>)
         \o CandidatesFrom(lines, fates, f, i + 1)

\* C26: parse_ingredients_lines returns for every block and, when the
\* fallback is not taken, every non-empty line has exactly one fate (skipped,
\* merged into the line before, valid, invalid), the four counts add up to
\* the number of non-empty lines, the valid and the invalid list are the
\* candidates of the valid and invalid lines in the order of the block, and
\* no candidate is in both lists.
C26_EachLineOnce ==
    Parsed =>
        /\ DOMAIN ret = {"valid", "invalid"}
        /\ NoFallback(args[1]) =>
               /\ Len(FatesOf(args[1])) = Len(NonEmptyRaw(args[1]))
               /\ Len(ret.valid) = HowMany(FatesOf(args[1]), "valid")
               /\ Len(ret.invalid) = HowMany(FatesOf(args[1]), "invalid")
               /\ Len(ret.valid) + Len(ret.invalid)
                    + HowMany(FatesOf(args[1]), "skipped")
                    + HowMany(FatesOf(args[1]), "merged")
                  = Len(NonEmptyRaw(args[1]))
               /\ ret.valid = CandidatesFrom(NonEmptyRaw(args[1]), FatesOf(args[1]), "valid", 1)
               /\ ret.invalid = CandidatesFrom(NonEmptyRaw(args[1]), FatesOf(args[1]), "invalid", 1)
               /\ \A i \in 1..Len(ret.valid) : ~InSeq(ret.valid[i], ret.invalid)

\* a block with a merged pair and an invalid line, all lines accounted for
C26_Witness ==
    /\ Parsed
    /\ NoFallback(args[1])
    /\ Len(NonEmptyRaw(args[1])) = MaxBlockLines
    /\ HowMany(FatesOf(args[1]), "merged") = 1
    /\ ret.valid # << >>
    /\ ret.invalid # << >>

-----------------------------------------------------------------------------
(* Claims about invalid ingredient lines in the records *)

EntryHasNote(e, nt) == \E i \in 1..Len(e.parse_notes) : e.parse_notes[i] = nt

\* C27: a record has invalid ingredient lines only together with accepted
\* ones; the note invalid_ingredient_lines is only on records whose steps
\* list is empty; a PARTIAL record has a non-empty ingredients list, a
\* non-empty steps list and a non-empty ingredients_invalid list.
C27_InvalidOnlyWithValid ==
    \A j \in 1..Len(index) :
        /\ index[j].ingredients_invalid # << >> => index[j].ingredients # << >>
        /\ EntryHasNote(index[j], "invalid_ingredient_lines") =>
               /\ index[j].steps = << >>
               /\ index[j].parse_status = "INCOMPLETE"
        /\ index[j].parse_status = "PARTIAL" =>
               /\ index[j].ingredients # << >>
               /\ index[j].steps # << >>
               /\ index[j].ingredients_invalid # << >>

\* a record with the note invalid_ingredient_lines: rejected lines next to
\* accepted ones, and no steps
C27_Witness ==
    \E j \in 1..Len(index) :
        /\ EntryHasNote(index[j], "invalid_ingredient_lines")
        /\ index[j].ingredients_invalid # << >>
        /\ index[j].ingredients # << >>
        /\ index[j].steps = << >>

-----------------------------------------------------------------------------
(* Claims about the index and the nutrition summary *)

\* the title and the five figures of a record, as a summary row has them
FiguresOf(e) ==
    <<e.title, e.total_kcal, e.kcal_per_portion, e.proteins_g, e.lipids_g, e.carbs_g>>

FiguresOfRow(row) == <<row[1], row[3], row[4], row[5], row[6], row[7]>>

\* C28: after any number k of documents, the index and the summary rows
\* have the same length, row j has the title and the figures of record j,
\* and the records are those of the documents among the first k that gave a
\* text, one each, in document order: a document that failed or had an
\* empty text has neither a record nor a row.
C28_LockStep ==
    /\ Len(index) = Len(nutrition_rows)
    /\ \A j \in 1..Len(index) :
           /\ j <= Len(nutrition_rows)
           /\ FiguresOfRow(nutrition_rows[j]) = FiguresOf(index[j])
    /\ FileIds(index) = IdsOf(SelectSeq(SubSeq(files, 1, k), HasText))

\* part of a run: a failed or empty document has been passed, a record with
\* positive figures is in the index, and a document is still to come
C28_Witness ==
    /\ pc = "loop"
    /\ k < Len(files)
    /\ \E i \in 1..k : ~HasText(files[i])
    /\ \E j \in 1..Len(index) : index[j].total_kcal > 0
    /\ Len(nutrition_rows) > 0

-----------------------------------------------------------------------------
(* Claims about with_retries *)

InRetries == pc \in {"retries", "returned", "raised"}

Calls == ret.calls

\* an outcome after which with_retries calls again, while attempts are left
TriedAgain(o) ==
    \/ o.kind = "Exception"
    \/ o.kind = "HttpError" /\ o.status \in {403, 429, 500, 502, 503, 504}

\* C29: at most 6 calls are made; a call is made only after calls that
\* raised a retryable HttpError or another exception, so nothing is called
\* after a return or after an HttpError with any other status; with_retries
\* returns exactly when the last call returned, goes on exactly when the
\* last call is to be tried again and fewer than 6 calls were made, and
\* otherwise the exception of the last call is raised: right away for a
\* non-retryable HttpError, at the 6th call for any exception.
C29_AtMostSixCalls ==
    InRetries =>
        /\ Len(Calls) <= 6
        /\ \A i \in 1..(Len(Calls) - 1) : TriedAgain(Calls[i])
        /\ pc = "returned" <=> (Calls # << >> /\ Calls[Len(Calls)].kind = "return")
        /\ pc = "raised" <=>
               /\ Calls # << >>
               /\ Calls[Len(Calls)].kind # "return"
               /\ (Len(Calls) = 6 \/ ~TriedAgain(Calls[Len(Calls)]))
        /\ pc = "retries" <=>
               /\ Len(Calls) < 6
               /\ Calls # << >> => TriedAgain(Calls[Len(Calls)])

\* the 6th call raises a retryable HttpError, after retryable errors and
\* other exceptions, and it reaches the caller
C29_Witness ==
    /\ pc = "raised"
    /\ Len(Calls) = 6
    /\ Calls[6].kind = "HttpError" /\ Calls[6].status \in RETRYABLE
    /\ \E i, j \in 1..5 : Calls[i].kind = "Exception" /\ Calls[j].kind = "HttpError"

-----------------------------------------------------------------------------
(* Claims about compute_folder_size *)

FolderSizeRuns == pc \in {"folder_size", "folder_size_done", "folder_size_raised"}

\* the positions in the listing of folder f that lead to a folder: its
\* sub-folders and, when shortcuts are followed, its folder shortcuts
LinksOf(f) ==
    {i \in 1..Len(args.children[f]) :
        \/ args.children[f][i].mime = "folder"
        \/ /\ args.follow_shortcuts
           /\ args.children[f][i].mime = "shortcut"
           /\ args.children[f][i].target_is_folder}

LeadsTo(f, g) == \E i \in LinksOf(f) : args.children[f][i].id = g

\* the folders that can be reached from the folders of S
RECURSIVE ReachableFrom(_)
ReachableFrom(S) ==
    IF \A f \in S : \A g \in FolderIds : LeadsTo(f, g) => g \in S
    THEN S
    ELSE ReachableFrom(S \cup {g \in FolderIds : \E f \in S : LeadsTo(f, g)})

ExpandedSet == {ret.expanded[i] : i \in 1..Len(ret.expanded)}

\* the files in the listing of folder f, and those of them that have a size
FilesIn(f) == {i \in 1..Len(args.children[f]) : args.children[f][i].mime = "file"}

RECURSIVE BytesFrom(_, _)
BytesFrom(f, i) ==
    IF i > Len(args.children[f]) THEN 0
    ELSE (IF args.children[f][i].mime = "file" /\ args.children[f][i].has_size
          THEN args.children[f][i].size ELSE 0) + BytesFrom(f, i + 1)

RECURSIVE OverFolders(_, _)
OverFolders(Per(_), S) ==
    IF S = {} THEN 0
    ELSE Per(CHOOSE f \in S : TRUE) + OverFolders(Per, S \ {CHOOSE f \in S : TRUE})

FileCount(f) == Cardinality(FilesIn(f))

FileBytes(f) == BytesFrom(f, 1)

\* C30: on every folder graph, with cycles and several paths to a folder,
\* compute_folder_size comes to an end; no folder id is expanded twice and
\* only reachable ones are; stats["folders"] is the number of distinct
\* folders expanded; when it returns, every reachable folder was expanded,
\* stats["files"] counts each file once for each expanded folder that lists
\* it, and total is the bytes of those files alone: shortcuts add nothing.
C30_TerminatesOnCycles ==
    /\ <>(pc \in {"folder_size_done", "folder_size_raised"})
    /\ [](FolderSizeRuns =>
            /\ Cardinality(ExpandedSet) = Len(ret.expanded)
            /\ ret.stats.folders = Cardinality(ExpandedSet)
            /\ ret.visited_folders = ExpandedSet
            /\ ExpandedSet \subseteq ReachableFrom({args.folder_id}))
    /\ [](pc = "folder_size_done" =>
            /\ ExpandedSet = ReachableFrom({args.folder_id})
            /\ ret.stats.files = OverFolders(FileCount, ExpandedSet)
            /\ ret.total = OverFolders(FileBytes, ExpandedSet))

\* a call has returned on a graph where followed shortcuts make a cycle, a
\* folder is listed twice under one folder, and file shortcuts lie next to
\* files with a size
C30_Witness ==
    /\ pc = "folder_size_done"
    /\ args.follow_shortcuts
    /\ \E f, g \in ExpandedSet : f # g /\ LeadsTo(f, g) /\ LeadsTo(g, f)
    /\ \E f, g \in ExpandedSet :
           Cardinality({i \in LinksOf(f) : args.children[f][i].id = g}) > 1
    /\ \E i \in 1..Len(args.children[1]) :
           args.children[1][i].mime = "shortcut" /\ ~args.children[1][i].target_is_folder
    /\ ret.stats.folders = MaxFolders
    /\ ret.total > 0

====
